---- MODULE Spec2Model ----
(***************************************************************************)
(* A model of skint's secret storage (internal/secrets): the record codec  *)
(* of FileStore.loadAll / saveAll, the AES-256-GCM cipher, the blob file   *)
(* secrets.enc, the OS keyring and the secrets Manager.                    *)
(*                                                                         *)
(* A Go string is a sequence of one-character strings; a map[string]string *)
(* is a function whose domain is a set of such sequences.                  *)
(***************************************************************************)
EXTENDS Integers, Sequences, FiniteSets, TLC

\* ------------------------------------------------------------------------
\* Characters and strings
\* ------------------------------------------------------------------------

NL == "\n"
BS == "\\"
EQ == "="
HASH == "#"
COLON == ":"
SP == " "

\* unicode.IsSpace, restricted to the characters the model uses.
Space == {SP, NL, "\t", "\r"}

\* Byte values of the characters the model uses (sort.Strings orders by byte).
Ord(c) ==
  CASE c = "\t" -> 9
    [] c = NL -> 10
    [] c = "\r" -> 13
    [] c = SP -> 32
    [] c = HASH -> 35
    [] c = "-" -> 45
    [] c = "1" -> 49
    [] c = "2" -> 50
    [] c = COLON -> 58
    [] c = EQ -> 61
    [] c = BS -> 92
    [] c = "a" -> 97
    [] c = "b" -> 98
    [] c = "k" -> 107
    [] c = "n" -> 110
    [] c = "x" -> 120

\* Go's string comparison s < t: bytewise lexicographic.
RECURSIVE StrLess(_, _)
StrLess(s, t) ==
  IF t = <<>> THEN FALSE
  ELSE IF s = <<>> THEN TRUE
  ELSE IF Ord(Head(s)) # Ord(Head(t)) THEN Ord(Head(s)) < Ord(Head(t))
  ELSE StrLess(Tail(s), Tail(t))

\* The orders in which a range over a map with key set S can visit the keys
\* (Go leaves the order unspecified), and one of them.
RangeOrders(S) ==
  {order \in [1..Cardinality(S) -> S] : \A x \in S : \E i \in 1..Cardinality(S) : order[i] = x}

RECURSIVE RangeOrder(_)
RangeOrder(S) ==
  IF S = {} THEN <<>>
  ELSE LET x == CHOOSE y \in S : TRUE
       IN  <<x>> \o RangeOrder(S \ {x})

\* sort.Strings as it would be if it left the slice as it is.
SortStringsNot(names) == names

\* x put at its place in an ascending slice.
RECURSIVE InsertSorted(_, _)
InsertSorted(sorted, x) ==
  IF sorted = <<>> THEN <<x>>
  ELSE IF StrLess(x, Head(sorted)) THEN <<x>> \o sorted
  ELSE <<Head(sorted)>> \o InsertSorted(Tail(sorted), x)

\* sort.Strings: the names of the slice in ascending order.
RECURSIVE SortStrings(_)
SortStrings(names) ==
  IF names = <<>> THEN <<>>
  ELSE InsertSorted(SortStrings(Tail(names)), Head(names))

\* strings.HasPrefix
HasPrefix(s, p) == Len(s) >= Len(p) /\ SubSeq(s, 1, Len(p)) = p

\* strings.Index for a one-character separator; 0 when absent.
Index(s, c) ==
  IF \E i \in 1..Len(s) : s[i] = c
  THEN CHOOSE i \in 1..Len(s) : s[i] = c /\ \A j \in 1..(i - 1) : s[j] # c
  ELSE 0

\* strings.TrimSpace
RECURSIVE TrimLeft(_)
TrimLeft(s) ==
  IF s # <<>> /\ Head(s) \in Space THEN TrimLeft(Tail(s)) ELSE s

RECURSIVE TrimRight(_)
TrimRight(s) ==
  IF s # <<>> /\ s[Len(s)] \in Space
  THEN TrimRight(SubSeq(s, 1, Len(s) - 1))
  ELSE s

TrimSpace(s) == TrimRight(TrimLeft(s))

\* strings.ReplaceAll(s, old, new) for a non-empty old: left to right,
\* non-overlapping.
RECURSIVE ReplaceAll(_, _, _)
ReplaceAll(s, old, new) ==
  IF s = <<>> THEN <<>>
  ELSE IF HasPrefix(s, old)
       THEN new \o ReplaceAll(SubSeq(s, Len(old) + 1, Len(s)), old, new)
       ELSE <<Head(s)>> \o ReplaceAll(Tail(s), old, new)

\* strings.Split(s, sep) for a one-character separator.
RECURSIVE Split(_, _)
Split(s, sep) ==
  LET i == Index(s, sep)
  IN  IF i = 0 THEN <<s>>
      ELSE <<SubSeq(s, 1, i - 1)>> \o Split(SubSeq(s, i + 1, Len(s)), sep)

\* strings.SplitN(s, sep, 2) for a one-character separator.
SplitN2(s, sep) ==
  LET i == Index(s, sep)
  IN  IF i = 0 THEN <<s>>
      ELSE <<SubSeq(s, 1, i - 1), SubSeq(s, i + 1, Len(s))>>

\* strings.Join(parts, sep)
RECURSIVE Join(_, _)
Join(parts, sep) ==
  IF parts = <<>> THEN <<>>
  ELSE IF Len(parts) = 1 THEN parts[1]
  ELSE parts[1] \o sep \o Join(Tail(parts), sep)

\* ------------------------------------------------------------------------
\* map[string]string
\* ------------------------------------------------------------------------

EmptyMap == [x \in {} |-> <<>>]
Put(m, k, v) == [x \in DOMAIN m \cup {k} |-> IF x = k THEN v ELSE m[x]]
Remove(m, k) == [x \in DOMAIN m \ {k} |-> m[x]]

\* ------------------------------------------------------------------------
\* The record codec of the blob's plaintext
\* ------------------------------------------------------------------------

\* saveAll's escaping of one value: newline, then equals sign.
EscapeValue(key) ==
  ReplaceAll(ReplaceAll(key, <<NL>>, <<BS, "n">>), <<EQ>>, <<BS, EQ>>)

\* saveAll's plaintext when the range over the map visits the names in the
\* order ranged: the names are sorted, then one name=value line per name.
SerializeSecretsFrom(secrets, ranged) ==
  LET names == SortStrings(ranged)
      lines == [i \in 1..Len(names) |->
                  names[i] \o <<EQ>> \o EscapeValue(secrets[names[i]])]
  IN  Join(lines, <<NL>>)

\* saveAll's plaintext.
SerializeSecrets(secrets) == SerializeSecretsFrom(secrets, RangeOrder(DOMAIN secrets))

\* loadAll's unescaping of one value: \= first, then \n.
UnescapeValue(value) ==
  ReplaceAll(ReplaceAll(value, <<BS, EQ>>, <<EQ>>), <<BS, "n">>, <<NL>>)

\* loadAll's loop over the lines, in order: a later line overwrites an
\* earlier one for the same key.
RECURSIVE ParseLines(_, _)
ParseLines(lines, secrets) ==
  IF lines = <<>> THEN secrets
  ELSE LET line == TrimSpace(Head(lines))
           parts == SplitN2(line, EQ)
       IN  IF line = <<>> \/ HasPrefix(line, <<HASH>>) \/ Len(parts) # 2
           THEN ParseLines(Tail(lines), secrets)
           ELSE ParseLines(Tail(lines),
                  Put(secrets, TrimSpace(parts[1]),
                      UnescapeValue(TrimSpace(parts[2]))))

\* loadAll's parse of the decrypted plaintext.
ParseSecrets(decrypted) == ParseLines(Split(decrypted, NL), EmptyMap)

\* ------------------------------------------------------------------------
\* The cipher (cipher.go): AES-256-GCM under a key derived from the machine
\* ------------------------------------------------------------------------

\* gcm.NonceSize() and the GCM tag length, in bytes.
NonceSize == 12
TagSize == 16

\* The number of distinct values the random nonce takes in the model.
NumNonces == 2
Nonces == 1..NumNonces

\* getMachineSalt: the hash of the machine's identifiers.
getMachineSalt(machine) == <<"sha256", machine>>

\* deriveKey: Argon2id of the fixed application secret under the machine salt.
deriveKey(machine) == <<"argon2id", "skint1", getMachineSalt(machine)>>

\* NewCipher: a cipher holding the derived key.
NewCipher(machine) == [key |-> deriveKey(machine)]

\* The r-th value of the random nonce, as NonceSize bytes.
NonceBytes(r) == [i \in 1..NonceSize |-> <<"n", r, i>>]

\* gcm.Seal: counter-mode ciphertext (byte i depends on the key, the nonce,
\* the position and the plaintext byte) followed by the tag (which depends
\* on the key, the nonce and the whole text).
Seal(key, r, plaintext) ==
  [i \in 1..(Len(plaintext) + TagSize) |->
     IF i <= Len(plaintext)
     THEN <<"c", key, r, i, plaintext[i]>>
     ELSE <<"t", key, r, i - Len(plaintext), plaintext>>]

\* Cipher.Encrypt with the random nonce r: nonce || sealed.
Encrypt(c, r, plaintext) == NonceBytes(r) \o Seal(c.key, r, plaintext)

\* gcm.Open as it would be without the tag check: counter-mode decryption of
\* whatever bytes are there.
OpenUnchecked(key, nonce, body) ==
  LET n == Len(body) - TagSize
  IN  IF n >= 0
      THEN [err |-> "nil",
            plaintext |-> [i \in 1..n |-> IF body[i][1] = "c" THEN body[i][5] ELSE "?"]]
      ELSE [err |-> "failed to decrypt", plaintext |-> <<>>]

\* gcm.Open: the plaintext when body is exactly what Seal gives for this key
\* and nonce, an authentication failure otherwise.
Open(key, nonce, body) ==
  LET n == Len(body) - TagSize
      r == IF nonce[1][1] = "n" THEN nonce[1][2] ELSE 0
      pt == [i \in 1..n |-> IF body[i][1] = "c" THEN body[i][5] ELSE "?"]
  IN  IF n >= 0 /\ r \in Nonces /\ nonce = NonceBytes(r) /\ body = Seal(key, r, pt)
      THEN [err |-> "nil", plaintext |-> pt]
      ELSE [err |-> "failed to decrypt", plaintext |-> <<>>]

\* Cipher.Decrypt as it would be if the nonce were not cut off the front of
\* the sealed bytes.
DecryptKeepingNonce(c, ciphertext) ==
  IF Len(ciphertext) < NonceSize
  THEN [err |-> "ciphertext too short", plaintext |-> <<>>]
  ELSE Open(c.key, SubSeq(ciphertext, 1, NonceSize), ciphertext)

\* Cipher.Decrypt
Decrypt(c, ciphertext) ==
  IF Len(ciphertext) < NonceSize
  THEN [err |-> "ciphertext too short", plaintext |-> <<>>]
  ELSE Open(c.key, SubSeq(ciphertext, 1, NonceSize),
            SubSeq(ciphertext, NonceSize + 1, Len(ciphertext)))

\* ------------------------------------------------------------------------
\* The data directory: directory entries by path
\* ------------------------------------------------------------------------

SecretsEnc == "secrets.enc"
Elsewhere == "elsewhere"
KeyFile == ".key"
Paths == {SecretsEnc, Elsewhere, KeyFile}

\* Permission bits of a regular file: 0600, and the 0644 of a file that is
\* readable by everybody.
OwnerOnly == "0600"
WorldReadable == "0644"

NoEntry == [kind |-> "none", data |-> <<>>, link |-> "", mode |-> ""]
\* A regular file as os.OpenFile(..., 0600) creates it.
FileEntry(data) == [kind |-> "file", data |-> data, link |-> "", mode |-> OwnerOnly]
LinkEntry(to) == [kind |-> "symlink", data |-> <<>>, link |-> to, mode |-> ""]

\* Path resolution following symbolic links, as stat and open do; a chain
\* longer than the paths there are is a loop.
RECURSIVE Resolve(_, _, _)
Resolve(fsys, path, hops) ==
  IF fsys[path].kind = "symlink"
  THEN IF hops = 0 THEN [err |-> "ELOOP", path |-> path]
       ELSE Resolve(fsys, fsys[path].link, hops - 1)
  ELSE [err |-> IF fsys[path].kind = "none" THEN "ENOENT" ELSE "nil",
        path |-> path]

\* os.Stat: follows symbolic links.
Stat(fsys, path) == Resolve(fsys, path, Cardinality(Paths)).err

\* os.Lstat: the entry itself.
Lstat(fsys, path) ==
  [err |-> IF fsys[path].kind = "none" THEN "ENOENT" ELSE "nil",
   symlink |-> fsys[path].kind = "symlink"]

\* os.ReadFile: follows symbolic links.
ReadFile(fsys, path) ==
  LET at == Resolve(fsys, path, Cardinality(Paths))
  IN  IF at.err = "nil"
      THEN [err |-> "nil", data |-> fsys[at.path].data]
      ELSE [err |-> at.err, data |-> <<>>]

\* os.OpenFile(path, O_WRONLY|O_CREATE|O_TRUNC, 0600): follows symbolic
\* links, creates the file the path resolves to with mode 0600 when it is
\* missing, and truncates it to length 0; the mode argument is not applied
\* to a file that exists.
OpenFileTrunc(fsys, path) ==
  LET at == Resolve(fsys, path, Cardinality(Paths))
  IN  IF at.err = "ELOOP"
      THEN [err |-> "ELOOP", fsys |-> fsys, at |-> path]
      ELSE [err |-> "nil",
            fsys |-> [fsys EXCEPT ![at.path] =
                        IF @.kind = "file" THEN [@ EXCEPT !.data = <<>>]
                        ELSE FileEntry(<<>>)],
            at |-> at.path]

\* f.Write on the file opened at path at: the bytes written so far.
WriteFile(fsys, at, bytes) == [fsys EXCEPT ![at].data = bytes]

\* os.Remove(path): unlinks the entry itself; when the call fails (the
\* directory cannot be written) the entry stays.
osRemove(fsys, path, fails) ==
  IF fails THEN fsys ELSE [fsys EXCEPT ![path] = NoEntry]

\* Cipher.getOrCreateKey's clean-up: the legacy .key file is removed, and
\* the error of the removal is discarded.
getOrCreateKey(fsys, fails) == osRemove(fsys, KeyFile, fails)

\* ------------------------------------------------------------------------
\* FileStore (secrets.go)
\* ------------------------------------------------------------------------

ErrSymlink == "secrets file is a symlink - refusing for security"
ErrRead == "failed to read secrets file"
ErrDecryptShort == "failed to decrypt secrets: ciphertext too short"
ErrDecryptAuth == "failed to decrypt secrets: failed to decrypt"
ErrNoKey == "no API key found"
ErrOpen == "failed to open secrets file"
ErrWrite == "failed to write secrets file"

\* What the operating system does to one saveAll: nothing unusual, a failing
\* open, or a write that fails after n bytes.
NoFault == [at |-> "none", n |-> 0]

\* The longest prefix a failed write leaves behind, counted from the end:
\* a failing write stops 1..MaxShort bytes short of the whole, or at byte 0.
MaxShort == 1

\* NewFileStore: a store with a cipher of its own.
NewFileStore(machine) == [dataDir |-> "dataDir", cipher |-> NewCipher(machine)]

\* FileStore.secretsFile
secretsFile(fs) == SecretsEnc

\* FileStore.loadAll as it would be if a blob that does not decrypt were taken
\* for a store with no secrets in it.
loadAllLenient(fsys, fs) ==
  LET file == secretsFile(fs)
      info == Lstat(fsys, file)
      read == ReadFile(fsys, file)
      decrypted == Decrypt(fs.cipher, read.data)
  IN  IF Stat(fsys, file) = "ENOENT"
      THEN [err |-> "nil", secrets |-> EmptyMap]
      ELSE IF info.err # "nil"
      THEN [err |-> info.err, secrets |-> EmptyMap]
      ELSE IF info.symlink
      THEN [err |-> ErrSymlink, secrets |-> EmptyMap]
      ELSE IF read.err # "nil"
      THEN [err |-> ErrRead, secrets |-> EmptyMap]
      ELSE IF decrypted.err # "nil"
      THEN [err |-> "nil", secrets |-> EmptyMap]
      ELSE [err |-> "nil", secrets |-> ParseSecrets(decrypted.plaintext)]

\* FileStore.loadAll as it would be if a blob of length 0 were taken for a
\* store with no secrets in it.
loadAllEmptyFile(fsys, fs) ==
  LET file == secretsFile(fs)
      info == Lstat(fsys, file)
      read == ReadFile(fsys, file)
      decrypted == Decrypt(fs.cipher, read.data)
  IN  IF Stat(fsys, file) = "ENOENT"
      THEN [err |-> "nil", secrets |-> EmptyMap]
      ELSE IF info.err # "nil"
      THEN [err |-> info.err, secrets |-> EmptyMap]
      ELSE IF info.symlink
      THEN [err |-> ErrSymlink, secrets |-> EmptyMap]
      ELSE IF read.err # "nil"
      THEN [err |-> ErrRead, secrets |-> EmptyMap]
      ELSE IF read.data = <<>>
      THEN [err |-> "nil", secrets |-> EmptyMap]
      ELSE IF decrypted.err # "nil"
      THEN [err |-> IF decrypted.err = "ciphertext too short"
                    THEN ErrDecryptShort ELSE ErrDecryptAuth,
            secrets |-> EmptyMap]
      ELSE [err |-> "nil", secrets |-> ParseSecrets(decrypted.plaintext)]

\* FileStore.loadAll
loadAll(fsys, fs) ==
  LET file == secretsFile(fs)
      info == Lstat(fsys, file)
      read == ReadFile(fsys, file)
      decrypted == Decrypt(fs.cipher, read.data)
  IN  IF Stat(fsys, file) = "ENOENT"
      THEN [err |-> "nil", secrets |-> EmptyMap]
      ELSE IF info.err # "nil"
      THEN [err |-> info.err, secrets |-> EmptyMap]
      ELSE IF info.symlink
      THEN [err |-> ErrSymlink, secrets |-> EmptyMap]
      ELSE IF read.err # "nil"
      THEN [err |-> ErrRead, secrets |-> EmptyMap]
      ELSE IF decrypted.err # "nil"
      THEN [err |-> IF decrypted.err = "ciphertext too short"
                    THEN ErrDecryptShort ELSE ErrDecryptAuth,
            secrets |-> EmptyMap]
      ELSE [err |-> "nil", secrets |-> ParseSecrets(decrypted.plaintext)]

\* FileStore.saveAll, with the nonce r that Encrypt draws and the fault the
\* operating system injects.
saveAll(fsys, fs, secrets, r, fault) ==
  LET content == SerializeSecrets(secrets)
      encrypted == Encrypt(fs.cipher, r, content)
      f == OpenFileTrunc(fsys, secretsFile(fs))
  IN  IF fault.at = "open" \/ f.err # "nil"
      THEN [err |-> ErrOpen, fsys |-> fsys]
      ELSE IF fault.at = "write"
      THEN [err |-> ErrWrite,
            fsys |-> WriteFile(f.fsys, f.at,
                               SubSeq(encrypted, 1,
                                      IF fault.n < Len(encrypted)
                                      THEN fault.n ELSE Len(encrypted)))]
      ELSE [err |-> "nil", fsys |-> WriteFile(f.fsys, f.at, encrypted)]

\* The faults saveAll can meet when it writes secrets.
Faults(fs, secrets) ==
  LET total == NonceSize + Len(SerializeSecrets(secrets)) + TagSize
  IN  {NoFault, [at |-> "open", n |-> 0], [at |-> "write", n |-> 0]}
        \cup {[at |-> "write", n |-> total - short] : short \in 1..MaxShort}

\* FileStore.Store as it would be if it forgot the secrets it loaded and
\* saved the new one alone.
FileStoreStoreAlone(fsys, fs, providerName, apiKey, r, fault) ==
  LET loaded == loadAll(fsys, fs)
  IN  IF loaded.err # "nil"
      THEN [err |-> loaded.err, fsys |-> fsys]
      ELSE saveAll(fsys, fs, Put(EmptyMap, providerName, apiKey), r, fault)

\* FileStore.Store
FileStoreStore(fsys, fs, providerName, apiKey, r, fault) ==
  LET loaded == loadAll(fsys, fs)
  IN  IF loaded.err # "nil"
      THEN [err |-> loaded.err, fsys |-> fsys]
      ELSE saveAll(fsys, fs, Put(loaded.secrets, providerName, apiKey), r, fault)

\* FileStore.Retrieve
FileStoreRetrieve(fsys, fs, providerName) ==
  LET loaded == loadAll(fsys, fs)
  IN  IF loaded.err # "nil"
      THEN [err |-> loaded.err, val |-> <<>>]
      ELSE IF providerName \notin DOMAIN loaded.secrets
      THEN [err |-> ErrNoKey, val |-> <<>>]
      ELSE [err |-> "nil", val |-> loaded.secrets[providerName]]

\* FileStore.Delete as it would be if, like keyring.Delete, it refused a name
\* that is not stored.
FileStoreDeleteStrict(fsys, fs, providerName, r, fault) ==
  LET loaded == loadAll(fsys, fs)
  IN  IF loaded.err # "nil"
      THEN [err |-> loaded.err, fsys |-> fsys]
      ELSE IF providerName \notin DOMAIN loaded.secrets
      THEN [err |-> ErrNoKey, fsys |-> fsys]
      ELSE saveAll(fsys, fs, Remove(loaded.secrets, providerName), r, fault)

\* FileStore.Delete
FileStoreDelete(fsys, fs, providerName, r, fault) ==
  LET loaded == loadAll(fsys, fs)
  IN  IF loaded.err # "nil"
      THEN [err |-> loaded.err, fsys |-> fsys]
      ELSE saveAll(fsys, fs, Remove(loaded.secrets, providerName), r, fault)

\* ------------------------------------------------------------------------
\* The OS keyring (github.com/zalando/go-keyring), service "skint"
\* ------------------------------------------------------------------------

ErrNotFound == "secret not found in keyring"
ErrKeyring == "keyring unavailable"

keyringGet(kr, user) ==
  IF ~kr.up THEN [err |-> ErrKeyring, val |-> <<>>]
  ELSE IF user \notin DOMAIN kr.items THEN [err |-> ErrNotFound, val |-> <<>>]
  ELSE [err |-> "nil", val |-> kr.items[user]]

keyringSet(kr, user, password) ==
  IF ~kr.up THEN [err |-> ErrKeyring, kr |-> kr]
  ELSE [err |-> "nil", kr |-> [kr EXCEPT !.items = Put(@, user, password)]]

keyringDelete(kr, user) ==
  IF ~kr.up THEN [err |-> ErrKeyring, kr |-> kr]
  ELSE IF user \notin DOMAIN kr.items THEN [err |-> ErrNotFound, kr |-> kr]
  ELSE [err |-> "nil", kr |-> [kr EXCEPT !.items = Remove(@, user)]]

\* ------------------------------------------------------------------------
\* Manager (secrets.go)
\* ------------------------------------------------------------------------

StorageTypeKeyring == <<"k", "e", "y", "r", "i", "n", "g">>
StorageTypeFile == <<"f", "i", "l", "e">>
ProbeUser == <<"s", "k", "i", "n", "t", "_", "p", "r", "o", "b", "e">>

ErrInvalidRef == "invalid reference format"
ErrNoFileStore == "file store not initialized"
ErrUnknownRef == "unknown reference type"

\* testKeyring: the probe for a key that does not exist answers ErrNotFound
\* exactly when the keyring works.
testKeyring(kr) == keyringGet(kr, ProbeUser).err = ErrNotFound

\* NewManager: the backend is chosen by the probe; the file store is built
\* only in file mode (a nil pointer is the empty sequence).
NewManager(kr, machine) ==
  LET useKeyring == testKeyring(kr)
  IN  [useKeyring |-> useKeyring,
       fileStore |-> IF useKeyring THEN <<>> ELSE <<NewFileStore(machine)>>]

\* Manager.IsKeyringAvailable
IsKeyringAvailable(m) == m.useKeyring

\* The result of a Manager call: the error, the value returned, the keyring
\* and the directory as the call leaves them, and the backends it called.
Result(err, val, kr, fsys, touched) ==
  [err |-> err, val |-> val, kr |-> kr, fsys |-> fsys, touched |-> touched]

\* Manager.Store as it would be if it probed the keyring on every call.
ManagerStoreProbing(m, kr, fsys, providerName, apiKey, r, fault) ==
  IF testKeyring(kr) \/ m.fileStore = <<>>
  THEN LET s == keyringSet(kr, providerName, apiKey)
       IN  Result(s.err, <<>>, s.kr, fsys, {"keyring"})
  ELSE LET s == FileStoreStore(fsys, m.fileStore[1], providerName, apiKey, r, fault)
       IN  Result(s.err, <<>>, kr, s.fsys, {"file"})

\* Manager.Store
ManagerStore(m, kr, fsys, providerName, apiKey, r, fault) ==
  IF m.useKeyring
  THEN LET s == keyringSet(kr, providerName, apiKey)
       IN  Result(s.err, <<>>, s.kr, fsys, {"keyring"})
  ELSE LET s == FileStoreStore(fsys, m.fileStore[1], providerName, apiKey, r, fault)
       IN  Result(s.err, <<>>, kr, s.fsys, {"file"})

\* Manager.Retrieve
ManagerRetrieve(m, kr, fsys, providerName) ==
  IF m.useKeyring
  THEN LET g == keyringGet(kr, providerName)
       IN  Result(g.err, g.val, kr, fsys, {"keyring"})
  ELSE LET g == FileStoreRetrieve(fsys, m.fileStore[1], providerName)
       IN  Result(g.err, g.val, kr, fsys, {"file"})

\* Manager.Delete
ManagerDelete(m, kr, fsys, providerName, r, fault) ==
  IF m.useKeyring
  THEN LET d == keyringDelete(kr, providerName)
       IN  Result(d.err, <<>>, d.kr, fsys, {"keyring"})
  ELSE LET d == FileStoreDelete(fsys, m.fileStore[1], providerName, r, fault)
       IN  Result(d.err, <<>>, kr, d.fsys, {"file"})

\* fmt.Sprintf("%s:%s", storageType, providerName)
Reference(storageType, providerName) == storageType \o <<COLON>> \o providerName

\* Manager.StoreWithReference as it would be without the early return on a
\* failed Store.
StoreWithReferenceAlways(m, kr, fsys, providerName, apiKey, r, fault) ==
  LET s == ManagerStore(m, kr, fsys, providerName, apiKey, r, fault)
  IN  IF m.useKeyring
      THEN [s EXCEPT !.val = Reference(StorageTypeKeyring, providerName)]
      ELSE [s EXCEPT !.val = Reference(StorageTypeFile, providerName)]

\* Manager.StoreWithReference
StoreWithReference(m, kr, fsys, providerName, apiKey, r, fault) ==
  LET s == ManagerStore(m, kr, fsys, providerName, apiKey, r, fault)
  IN  IF s.err # "nil" THEN s
      ELSE IF m.useKeyring
      THEN [s EXCEPT !.val = Reference(StorageTypeKeyring, providerName)]
      ELSE [s EXCEPT !.val = Reference(StorageTypeFile, providerName)]

\* Manager.RetrieveByReference as it would be if a reference it cannot parse
\* were looked up as a name in the active backend.
RetrieveByReferenceGuessing(m, kr, fsys, ref) ==
  LET parts == SplitN2(ref, COLON)
  IN  IF Len(parts) # 2
      THEN ManagerRetrieve(m, kr, fsys, ref)
      ELSE IF parts[1] = StorageTypeKeyring
      THEN LET g == keyringGet(kr, parts[2])
           IN  Result(g.err, g.val, kr, fsys, {"keyring"})
      ELSE IF parts[1] = StorageTypeFile
      THEN IF m.fileStore = <<>>
           THEN Result(ErrNoFileStore, <<>>, kr, fsys, {})
           ELSE LET g == FileStoreRetrieve(fsys, m.fileStore[1], parts[2])
                IN  Result(g.err, g.val, kr, fsys, {"file"})
      ELSE ManagerRetrieve(m, kr, fsys, parts[2])

\* Manager.RetrieveByReference
RetrieveByReference(m, kr, fsys, ref) ==
  LET parts == SplitN2(ref, COLON)
  IN  IF Len(parts) # 2
      THEN Result(ErrInvalidRef, <<>>, kr, fsys, {})
      ELSE IF parts[1] = StorageTypeKeyring
      THEN LET g == keyringGet(kr, parts[2])
           IN  Result(g.err, g.val, kr, fsys, {"keyring"})
      ELSE IF parts[1] = StorageTypeFile
      THEN IF m.fileStore = <<>>
           THEN Result(ErrNoFileStore, <<>>, kr, fsys, {})
           ELSE LET g == FileStoreRetrieve(fsys, m.fileStore[1], parts[2])
                IN  Result(g.err, g.val, kr, fsys, {"file"})
      ELSE Result(ErrUnknownRef, <<>>, kr, fsys, {})

\* ------------------------------------------------------------------------
\* State
\* ------------------------------------------------------------------------

VARIABLES
  fsys,   \* the data directory: Paths -> directory entry
  kr,     \* the OS keyring: [up, items]
  mgr,    \* the Manager: [useKeyring, fileStore]
  ret,    \* the last call and what it returned
  hist,   \* history: what the calls so far should have left behind
  codec,  \* a codec round trip under test: [phase, secrets, text, parsed]
  procs,  \* concurrent Store calls: process -> [pc, name, key, secrets]
  box,    \* a cipher round trip under test: [phase, plaintext, data, out]
  cfg,    \* the Config in memory: [Version, OutputFormat, DefaultProvider, Providers]
  tui     \* the TUI's Model: [screen, selectedProvider, customProviderName, ...]

vars == <<fsys, kr, mgr, ret, hist, codec, procs, box, cfg, tui>>

\* The machine the process runs on.
Machine == "m1"

\* The inputs of the calls on a FileStore.
ProviderNames == {<<"a">>, <<"b">>, <<"a", EQ, "b">>}
APIKeys == {<<"k">>, <<"x">>}

\* The inputs of the calls on the Manager.
ManagerNames == {<<"a">>, <<"a", EQ, "b">>}
References ==
  {Reference(t, p) : t \in {StorageTypeKeyring, StorageTypeFile},
                     p \in ManagerNames \cup {<<"b">>}}
    \cup {<<>>, <<"a">>, <<"x", COLON, "a">>,
          Reference(StorageTypeKeyring, <<"a", COLON, "b">>)}

\* Letters, digits and hyphens.
CleanChars == {"a", "b", "k", "n", "x", "1", "2", "-"}
IsClean(s) == \A i \in 1..Len(s) : s[i] \in CleanChars

\* What an earlier run may have left behind: a blob written in file mode, an
\* entry in the keyring.
InitSecrets == {EmptyMap, Put(EmptyMap, <<"b">>, <<"k">>)}
InitItems == {Put(Put(EmptyMap, <<"a">>, <<"x">>), <<"a", COLON, "b">>, <<"k">>)}

Call(op, arg, key, res) ==
  [op |-> op, arg |-> arg, key |-> key, err |-> res.err, val |-> res.val,
   touched |-> res.touched]

CodecOff == [phase |-> "off", secrets |-> EmptyMap, text |-> <<>>, parsed |-> EmptyMap]

\* No other process is inside a Store call; no cipher round trip under test.
ProcsOff == <<>>
NoOutput == [err |-> "", plaintext |-> <<>>]
BoxOff == [phase |-> "off", plaintext |-> <<>>, data |-> <<>>, out |-> NoOutput]

\* No Config is loaded and no TUI is running.
CfgOff == <<>>
TuiOff == <<>>

\* A data directory that holds the secret set s (no blob when s is empty).
DirWith(s) ==
  [p \in Paths |->
     IF p = SecretsEnc /\ s # EmptyMap
     THEN FileEntry(Encrypt(NewCipher(Machine), 1, SerializeSecrets(s)))
     ELSE NoEntry]

\* A process that has called NewManager(), on a machine whose keyring is up
\* or down and where an earlier run may have stored secrets.
Init ==
  /\ kr \in {[up |-> u, items |-> i] : u \in BOOLEAN, i \in InitItems}
  /\ \E s \in InitSecrets :
       /\ fsys = DirWith(s)
       /\ hist = [model |-> s, clean |-> TRUE, useKeyring |-> testKeyring(kr)]
  /\ mgr = NewManager(kr, Machine)
  /\ cfg = CfgOff
  /\ tui = TuiOff
  /\ ret = Call("NewManager", <<>>, <<>>, Result("nil", <<>>, kr, fsys, {"keyring"}))
  /\ codec = CodecOff
  /\ procs = ProcsOff
  /\ box = BoxOff

\* The faults a Manager call can meet: the keyring backend writes no file.
CallFaults(secrets) ==
  IF mgr.useKeyring THEN {NoFault} ELSE Faults(mgr.fileStore[1], secrets)

\* The secret set a Store or Delete of the Manager is about to serialize
\* (empty when loadAll fails: saveAll is then never reached).
Loaded == IF mgr.useKeyring THEN EmptyMap ELSE loadAll(fsys, mgr.fileStore[1]).secrets

\* ------------------------------------------------------------------------
\* The calls on the Manager
\* ------------------------------------------------------------------------

Store(p, k) ==
  \E r \in Nonces : \E fault \in CallFaults(Put(Loaded, p, k)) :
    \E res \in {ManagerStore(mgr, kr, fsys, p, k, r, fault)} :
        /\ fsys' = res.fsys
        /\ kr' = res.kr
        /\ ret' = Call("Store", p, k, res)
        /\ UNCHANGED <<mgr, hist, codec, procs, box, cfg, tui>>

Retrieve(p) ==
  \E res \in {ManagerRetrieve(mgr, kr, fsys, p)} :
      /\ fsys' = res.fsys
      /\ kr' = res.kr
      /\ ret' = Call("Retrieve", p, <<>>, res)
      /\ UNCHANGED <<mgr, hist, codec, procs, box, cfg, tui>>

Delete(p) ==
  \E r \in Nonces : \E fault \in CallFaults(Remove(Loaded, p)) :
    \E res \in {ManagerDelete(mgr, kr, fsys, p, r, fault)} :
        /\ fsys' = res.fsys
        /\ kr' = res.kr
        /\ ret' = Call("Delete", p, <<>>, res)
        /\ UNCHANGED <<mgr, hist, codec, procs, box, cfg, tui>>

StoreRef(p, k) ==
  \E r \in Nonces : \E fault \in CallFaults(Put(Loaded, p, k)) :
    \E res \in {StoreWithReference(mgr, kr, fsys, p, k, r, fault)} :
        /\ fsys' = res.fsys
        /\ kr' = res.kr
        /\ ret' = Call("StoreWithReference", p, k, res)
        /\ UNCHANGED <<mgr, hist, codec, procs, box, cfg, tui>>

RetrieveRef(ref) ==
  \E res \in {RetrieveByReference(mgr, kr, fsys, ref)} :
      /\ fsys' = res.fsys
      /\ kr' = res.kr
      /\ ret' = Call("RetrieveByReference", ref, <<>>, res)
      /\ UNCHANGED <<mgr, hist, codec, procs, box, cfg, tui>>

KeyringAvailable ==
  /\ ret' = Call("IsKeyringAvailable", <<>>, <<>>,
                 Result("nil", IF IsKeyringAvailable(mgr) THEN <<"true">> ELSE <<"false">>,
                        kr, fsys, {}))
  /\ UNCHANGED <<fsys, kr, mgr, hist, codec, procs, box, cfg, tui>>

\* The keyring service stops or starts.
EnvKeyring ==
  /\ kr' = [kr EXCEPT !.up = ~@]
  /\ UNCHANGED <<fsys, mgr, ret, hist, codec, procs, box, cfg, tui>>

Next ==
  \/ \E p \in ManagerNames, k \in APIKeys : Store(p, k)
  \/ \E p \in ManagerNames : Retrieve(p)
  \/ \E p \in ManagerNames : Delete(p)
  \/ \E p \in ManagerNames, k \in APIKeys : StoreRef(p, k)
  \/ \E ref \in References : RetrieveRef(ref)
  \/ KeyringAvailable
  \/ EnvKeyring

Spec == Init /\ [][Next]_vars

\* ------------------------------------------------------------------------
\* A FileStore used on its own by one process
\* ------------------------------------------------------------------------

\* The store NewFileStore(dataDir) gives on this machine.
TheFileStore == NewFileStore(Machine)

\* A second store, constructed independently on the same data directory and
\* machine.
SecondFileStore == NewFileStore(Machine)

\* hist after a Store or Delete on the store: clean records that every call
\* so far succeeded, with names and values of letters, digits and hyphens,
\* and that nobody else touched the directory; while that is so, the model
\* follows the calls (and is dropped afterwards).
HistAfter(model, ok) ==
  [hist EXCEPT !.model = IF hist.clean /\ ok THEN model ELSE EmptyMap,
               !.clean = @ /\ ok]

HistStore(res, p, k) ==
  HistAfter(Put(hist.model, p, k), res.err = "nil" /\ IsClean(p) /\ IsClean(k))

HistDelete(res, p) ==
  HistAfter(Remove(hist.model, p), res.err = "nil" /\ IsClean(p))

FsCall(op, arg, key, err, val) ==
  [op |-> op, arg |-> arg, key |-> key, err |-> err, val |-> val, touched |-> {"file"}]

FsStore(p, k) ==
  LET fs == TheFileStore
      loaded == loadAll(fsys, fs)
  IN  \E r \in Nonces : \E fault \in Faults(fs, Put(loaded.secrets, p, k)) :
        \E res \in {FileStoreStore(fsys, fs, p, k, r, fault)} :
            /\ fsys' = res.fsys
            /\ ret' = FsCall("FileStore.Store", p, k, res.err, <<>>)
            /\ hist' = HistStore(res, p, k)
            /\ UNCHANGED <<kr, mgr, codec, procs, box, cfg, tui>>

\* Retrieve as it would be if loadAll opened the blob with O_CREATE: a
\* Retrieve on a store with no blob leaves an empty file behind.
FsRetrieveCreating(p) ==
  \E res \in {FileStoreRetrieve(fsys, TheFileStore, p)} :
      /\ ret' = FsCall("FileStore.Retrieve", p, <<>>, res.err, res.val)
      /\ fsys' = IF fsys[SecretsEnc].kind = "none"
                 THEN [fsys EXCEPT ![SecretsEnc] = FileEntry(<<>>)]
                 ELSE fsys
      /\ UNCHANGED <<kr, mgr, hist, codec, procs, box, cfg, tui>>

\* FileStore.Retrieve(p): loadAll calls os.Stat, os.Lstat and os.ReadFile
\* and nothing that writes.
FsRetrieve(p) ==
  \E res \in {FileStoreRetrieve(fsys, TheFileStore, p)} :
      /\ ret' = FsCall("FileStore.Retrieve", p, <<>>, res.err, res.val)
      /\ UNCHANGED <<fsys, kr, mgr, hist, codec, procs, box, cfg, tui>>

FsDelete(p) ==
  LET fs == TheFileStore
      loaded == loadAll(fsys, fs)
  IN  \E r \in Nonces : \E fault \in Faults(fs, Remove(loaded.secrets, p)) :
        \E res \in {FileStoreDelete(fsys, fs, p, r, fault)} :
            /\ fsys' = res.fsys
            /\ ret' = FsCall("FileStore.Delete", p, <<>>, res.err, <<>>)
            /\ hist' = HistDelete(res, p)
            /\ UNCHANGED <<kr, mgr, codec, procs, box, cfg, tui>>

\* Another local user replaces secrets.enc by a symbolic link: to a path
\* that does not exist, to the blob moved aside, or to itself.
EnvSymlink(how) ==
  /\ fsys[SecretsEnc].kind # "symlink"
  /\ fsys[Elsewhere].kind = "none"
  /\ how = "move" => fsys[SecretsEnc].kind = "file"
  /\ fsys' = CASE how = "dangling" -> [fsys EXCEPT ![SecretsEnc] = LinkEntry(Elsewhere)]
               [] how = "move" -> [fsys EXCEPT ![Elsewhere] = fsys[SecretsEnc],
                                               ![SecretsEnc] = LinkEntry(Elsewhere)]
               [] how = "loop" -> [fsys EXCEPT ![SecretsEnc] = LinkEntry(SecretsEnc)]
  /\ hist' = HistAfter(EmptyMap, FALSE)
  /\ UNCHANGED <<kr, mgr, ret, codec, procs, box, cfg, tui>>

\* A process that has called NewFileStore(dataDir) on an empty directory.
InitFile ==
  /\ fsys = DirWith(EmptyMap)
  /\ kr = [up |-> FALSE, items |-> EmptyMap]
  /\ mgr = NewManager(kr, Machine)
  /\ cfg = CfgOff
  /\ tui = TuiOff
  /\ ret = FsCall("NewFileStore", <<>>, <<>>, "nil", <<>>)
  /\ hist = [model |-> EmptyMap, clean |-> TRUE, useKeyring |-> FALSE]
  /\ codec = CodecOff
  /\ procs = ProcsOff
  /\ box = BoxOff

NextFile ==
  \/ \E p \in ProviderNames, k \in APIKeys : FsStore(p, k)
  \/ \E p \in ProviderNames : FsRetrieve(p)
  \/ \E p \in ProviderNames : FsDelete(p)
  \/ \E how \in {"dangling", "move", "loop"} : EnvSymlink(how)

SpecFile == InitFile /\ [][NextFile]_vars

\* ------------------------------------------------------------------------
\* A FileStore opened on a data directory that an earlier version used
\* ------------------------------------------------------------------------

\* The name the calls of this process use.
DirNames == {<<"a">>}

\* What the earlier version's .key file holds: a key it generated.
LegacyKey == <<<<"legacy", 1>>>>

\* The directory before NewFileStore: the blob of an earlier run, if any,
\* and the .key file of an earlier version, if any.
DirBefore(s, legacy) ==
  [DirWith(s) EXCEPT ![KeyFile] = IF legacy THEN FileEntry(LegacyKey) ELSE NoEntry]

\* A process that has called NewFileStore(dataDir): the key is derived and
\* the .key file has been removed, unless the removal failed.
InitDir ==
  /\ \E s \in InitSecrets, legacy \in BOOLEAN, fails \in BOOLEAN :
       /\ fsys = getOrCreateKey(DirBefore(s, legacy), fails)
       /\ hist = [model |-> s, clean |-> TRUE, useKeyring |-> FALSE]
  /\ kr = [up |-> FALSE, items |-> EmptyMap]
  /\ mgr = NewManager(kr, Machine)
  /\ cfg = CfgOff
  /\ tui = TuiOff
  /\ ret = FsCall("NewFileStore", <<>>, <<>>, "nil", <<>>)
  /\ codec = CodecOff
  /\ procs = ProcsOff
  /\ box = BoxOff

\* The blob file's permissions are widened by something other than skint: a
\* chmod, or a restore from a backup.
EnvChmod ==
  /\ fsys[SecretsEnc].kind = "file"
  /\ fsys[SecretsEnc].mode = OwnerOnly
  /\ fsys' = [fsys EXCEPT ![SecretsEnc].mode = WorldReadable]
  /\ UNCHANGED <<kr, mgr, ret, hist, codec, procs, box, cfg, tui>>

NextDir ==
  \/ \E p \in DirNames, k \in APIKeys : FsStore(p, k)
  \/ \E p \in DirNames : FsRetrieve(p)
  \/ \E p \in DirNames : FsDelete(p)
  \/ EnvChmod

SpecDir == InitDir /\ [][NextDir]_vars

\* ------------------------------------------------------------------------
\* Two skint processes, each inside one FileStore.Store on the same blob
\* ------------------------------------------------------------------------

Procs == {"p1", "p2"}
RaceNames == {<<"a">>, <<"b">>}

\* A process before its call.
Idle ==
  [pc |-> "idle", name |-> <<>>, key |-> <<>>, secrets |-> EmptyMap,
   err |-> "nil", last |-> FALSE]

InitRace ==
  /\ \E s \in InitSecrets :
       /\ fsys = DirWith(s)
       /\ hist = [model |-> s, clean |-> TRUE, useKeyring |-> FALSE]
  /\ kr = [up |-> FALSE, items |-> EmptyMap]
  /\ mgr = NewManager(kr, Machine)
  /\ cfg = CfgOff
  /\ tui = TuiOff
  /\ ret = FsCall("NewFileStore", <<>>, <<>>, "nil", <<>>)
  /\ codec = CodecOff
  /\ procs = [i \in Procs |-> Idle]
  /\ box = BoxOff

\* Process i enters Store(p, k) and runs loadAll.
RaceLoad(i, p, k) ==
  /\ procs[i].pc = "idle"
  /\ \E loaded \in {loadAll(fsys, NewFileStore(Machine))} :
       procs' = [procs EXCEPT ![i] =
                   [pc |-> IF loaded.err = "nil" THEN "loaded" ELSE "done",
                    name |-> p, key |-> k, secrets |-> loaded.secrets,
                    err |-> loaded.err, last |-> FALSE]]
  /\ UNCHANGED <<fsys, kr, mgr, ret, hist, codec, box, cfg, tui>>

\* Process i runs saveAll on the map secrets and returns from Store.
RaceWrite(i, secrets) ==
  /\ procs[i].pc = "loaded"
  /\ \E r \in Nonces :
       \E res \in {saveAll(fsys, NewFileStore(Machine), secrets, r, NoFault)} :
         /\ fsys' = res.fsys
         /\ procs' = [j \in Procs |->
                        IF j = i
                        THEN [procs[j] EXCEPT !.pc = "done", !.err = res.err,
                                              !.last = TRUE]
                        ELSE [procs[j] EXCEPT !.last = FALSE]]
  /\ UNCHANGED <<kr, mgr, ret, hist, codec, box, cfg, tui>>

\* The second half of Store as it would be if a lock were held from the load
\* to the save: the map saved is the blob's present content with the entry.
RaceSaveLocked(i) ==
  RaceWrite(i, Put(loadAll(fsys, NewFileStore(Machine)).secrets,
                   procs[i].name, procs[i].key))

\* Process i updates the map it loaded and runs saveAll.
RaceSave(i) ==
  RaceWrite(i, Put(procs[i].secrets, procs[i].name, procs[i].key))

NextRace ==
  \/ \E i \in Procs, p \in RaceNames, k \in APIKeys : RaceLoad(i, p, k)
  \/ \E i \in Procs : RaceSave(i)

SpecRace == InitRace /\ [][NextRace]_vars

\* ------------------------------------------------------------------------
\* The codec on its own: saveAll's text of a secret set, parsed by loadAll
\* ------------------------------------------------------------------------

\* The longest value of a secret set under test.
MaxValueLen == 2

CodecNames == {<<"a">>, <<"b">>}
CodecChars == {"k", "n", EQ, NL, BS}

RECURSIVE StringsUpTo(_, _)
StringsUpTo(chars, n) ==
  IF n = 0 THEN {<<>>}
  ELSE LET shorter == StringsUpTo(chars, n - 1)
       IN  shorter \cup {<<c>> \o s : c \in chars, s \in {t \in shorter : Len(t) = n - 1}}

CodecValues == StringsUpTo(CodecChars, MaxValueLen)

\* Every secret set over CodecNames with values in CodecValues.
CodecSets == UNION {[D -> CodecValues] : D \in SUBSET CodecNames}

InitCodec ==
  /\ fsys = DirWith(EmptyMap)
  /\ kr = [up |-> FALSE, items |-> EmptyMap]
  /\ mgr = NewManager(kr, Machine)
  /\ cfg = CfgOff
  /\ tui = TuiOff
  /\ ret = FsCall("NewFileStore", <<>>, <<>>, "nil", <<>>)
  /\ hist = [model |-> EmptyMap, clean |-> TRUE, useKeyring |-> FALSE]
  /\ \E s \in CodecSets :
       codec = [phase |-> "input", secrets |-> s, text |-> <<>>, parsed |-> EmptyMap]
  /\ procs = ProcsOff
  /\ box = BoxOff

\* saveAll builds the plaintext of the secret set, ranging over the map in
\* some order.
CodecSave ==
  /\ codec.phase = "input"
  /\ \E ranged \in RangeOrders(DOMAIN codec.secrets) :
       codec' = [codec EXCEPT !.phase = "saved",
                              !.text = SerializeSecretsFrom(codec.secrets, ranged)]
  /\ UNCHANGED <<fsys, kr, mgr, ret, hist, procs, box, cfg, tui>>

\* loadAll parses that plaintext.
CodecLoad ==
  /\ codec.phase = "saved"
  /\ codec' = [codec EXCEPT !.phase = "loaded", !.parsed = ParseSecrets(codec.text)]
  /\ UNCHANGED <<fsys, kr, mgr, ret, hist, procs, box, cfg, tui>>

NextCodec == CodecSave \/ CodecLoad

SpecCodec == InitCodec /\ [][NextCodec]_vars

\* ------------------------------------------------------------------------
\* The cipher on its own: Encrypt, a bit flipped in transit, Decrypt
\* ------------------------------------------------------------------------

\* The longest plaintext under test.
MaxPlainLen == 2

BoxPlaintexts == StringsUpTo({"k", NL}, MaxPlainLen)

\* Bit positions of a byte.
Bits == 0..7

\* A byte with one bit inverted: some other byte.
FlipBit(byte, bit) == <<"flip", byte, bit>>

InitCipher ==
  /\ fsys = DirWith(EmptyMap)
  /\ kr = [up |-> FALSE, items |-> EmptyMap]
  /\ mgr = NewManager(kr, Machine)
  /\ cfg = CfgOff
  /\ tui = TuiOff
  /\ ret = FsCall("NewFileStore", <<>>, <<>>, "nil", <<>>)
  /\ hist = [model |-> EmptyMap, clean |-> TRUE, useKeyring |-> FALSE]
  /\ codec = CodecOff
  /\ procs = ProcsOff
  /\ \E P \in BoxPlaintexts :
       box = [phase |-> "input", plaintext |-> P, data |-> <<>>, out |-> NoOutput]

\* Cipher.Encrypt of the plaintext, under a nonce drawn at random.
BoxEncrypt ==
  /\ box.phase = "input"
  /\ \E r \in Nonces :
       box' = [box EXCEPT !.phase = "sealed",
                          !.data = Encrypt(NewCipher(Machine), r, box.plaintext)]
  /\ UNCHANGED <<fsys, kr, mgr, ret, hist, codec, procs, cfg, tui>>

\* One bit of byte i of the sealed bytes is inverted.
BoxFlip(i, bit) ==
  /\ box.phase = "sealed"
  /\ i \in 1..Len(box.data)
  /\ box' = [box EXCEPT !.phase = "flipped", !.data[i] = FlipBit(@, bit)]
  /\ UNCHANGED <<fsys, kr, mgr, ret, hist, codec, procs, cfg, tui>>

\* Cipher.Decrypt of the bytes, on the same Cipher.
BoxDecrypt ==
  /\ box.phase \in {"sealed", "flipped"}
  /\ box' = [box EXCEPT !.phase = IF box.phase = "sealed" THEN "opened" ELSE "checked",
                        !.out = Decrypt(NewCipher(Machine), box.data)]
  /\ UNCHANGED <<fsys, kr, mgr, ret, hist, codec, procs, cfg, tui>>

NextCipher ==
  \/ BoxEncrypt
  \/ \E i \in 1..(NonceSize + MaxPlainLen + TagSize), bit \in Bits : BoxFlip(i, bit)
  \/ BoxDecrypt

SpecCipher == InitCipher /\ [][NextCipher]_vars

\* ------------------------------------------------------------------------
\* Config (config.go): the provider list and its validation
\* ------------------------------------------------------------------------

ConfigVersion == "1.0"

ProviderTypeBuiltin == "builtin"
ProviderTypeLocal == "local"
ProviderTypeCustom == "custom"

APITypeAnthropic == "anthropic"

FormatHuman == "human"

validTypes == {ProviderTypeBuiltin, "openrouter", ProviderTypeLocal, ProviderTypeCustom}

\* The two provider names that need no base URL.
Native == <<"n", "a", "t", "i", "v", "e">>
Anthropic == <<"a", "n", "t", "h", "r", "o", "p", "i", "c">>


\* A Provider: the fields the validation and the commands read.
Provider(name, type, url, apiType, ref) ==
  [Name |-> name, Type |-> type, BaseURL |-> url, APIType |-> apiType,
   APIKeyRef |-> ref]

\* Provider.Validate
ProviderValidate(p) ==
  IF p.Type = "" THEN "provider type is required"
  ELSE IF p.Type \notin validTypes
  THEN "invalid provider type"
  ELSE IF /\ p.Type # ProviderTypeLocal
          /\ p.Name # Native
          /\ p.Name # Anthropic
          /\ p.BaseURL = ""
  THEN "base_url is required"
  ELSE IF /\ p.Type = ProviderTypeCustom
          /\ p.APIType # ""
          /\ p.APIType # APITypeAnthropic
          /\ p.APIType # "openai"
  THEN "invalid api_type"
  ELSE "nil"

\* The loop of Config.Validate over the providers from index i on, names
\* being the names seen so far: the first error, or none.
RECURSIVE ValidateProviders(_, _, _)
ValidateProviders(ps, i, names) ==
  IF i > Len(ps) THEN "nil"
  ELSE IF ps[i].Name = <<>> THEN "provider has no name"
  ELSE IF ps[i].Name \in names THEN "duplicate provider name"
  ELSE IF ProviderValidate(ps[i]) # "nil" THEN ProviderValidate(ps[i])
  ELSE ValidateProviders(ps, i + 1, names \cup {ps[i].Name})

\* Config.Validate: fills in the version and the output format when they are
\* empty, then checks the format, the providers and the default provider.
ConfigValidate(c) ==
  LET c1 == [c EXCEPT !.Version = IF @ = "" THEN ConfigVersion ELSE @,
                      !.OutputFormat = IF @ = "" THEN FormatHuman ELSE @]
      names == {c1.Providers[i].Name : i \in 1..Len(c1.Providers)}
  IN  [cfg |-> c1,
       err |-> IF c1.OutputFormat \notin {FormatHuman, "json", "plain"}
               THEN "invalid output format"
               ELSE IF ValidateProviders(c1.Providers, 1, {}) # "nil"
               THEN ValidateProviders(c1.Providers, 1, {})
               ELSE IF c1.DefaultProvider # <<>> /\ c1.DefaultProvider \notin names
               THEN "default provider not found in providers list"
               ELSE "nil"]

\* Config.GetProvider: the position of the first provider of that name, 0
\* for nil.
GetProvider(c, name) ==
  LET at == {i \in 1..Len(c.Providers) : c.Providers[i].Name = name}
  IN  IF at = {} THEN 0 ELSE CHOOSE i \in at : \A j \in at : i <= j

\* A variant of AddProvider that does not look the name up.
AddProviderUnchecked(c, p) ==
  IF ProviderValidate(p) # "nil" THEN [err |-> ProviderValidate(p), cfg |-> c]
  ELSE [err |-> "nil", cfg |-> [c EXCEPT !.Providers = Append(@, p)]]

\* Config.AddProvider
AddProvider(c, p) ==
  IF GetProvider(c, p.Name) # 0 THEN [err |-> "provider already exists", cfg |-> c]
  ELSE IF ProviderValidate(p) # "nil" THEN [err |-> ProviderValidate(p), cfg |-> c]
  ELSE [err |-> "nil", cfg |-> [c EXCEPT !.Providers = Append(@, p)]]

\* Config.RemoveProvider: the first provider of that name is cut out.
RemoveProvider(c, name) ==
  LET i == GetProvider(c, name)
  IN  IF i = 0 THEN [ok |-> FALSE, cfg |-> c]
      ELSE [ok |-> TRUE,
            cfg |-> [c EXCEPT !.Providers =
                       SubSeq(@, 1, i - 1) \o SubSeq(@, i + 1, Len(@))]]

\* NewDefaultConfig
NewDefaultConfig ==
  [Version |-> ConfigVersion, OutputFormat |-> FormatHuman,
   DefaultProvider |-> <<>>, Providers |-> <<>>]

\* ------------------------------------------------------------------------
\* A Config in memory, its providers added and removed
\* ------------------------------------------------------------------------

\* The longest provider list under test.
MaxProviders == 2

ConfigNames == {<<>>, Native, <<"a">>, <<"b">>}

\* The providers a caller passes: valid ones of each type, and ones that
\* fail each rule of Provider.Validate.
ProviderInputs ==
  {Provider(n, s[1], s[2], s[3], <<>>) :
     n \in ConfigNames,
     s \in {<<"", "", "">>,
            <<"bogus", "u", "">>,
            <<ProviderTypeBuiltin, "", "">>,
            <<ProviderTypeBuiltin, "u", "">>,
            <<ProviderTypeLocal, "", "">>,
            <<ProviderTypeCustom, "u", "openai">>,
            <<ProviderTypeCustom, "u", "bogus">>}}

CfgCall(op, arg, err) ==
  [op |-> op, arg |-> arg, key |-> <<>>, err |-> err, val |-> <<>>, touched |-> {}]

InitConfig ==
  /\ fsys = DirWith(EmptyMap)
  /\ kr = [up |-> FALSE, items |-> EmptyMap]
  /\ mgr = NewManager(kr, Machine)
  /\ ret = CfgCall("NewDefaultConfig", <<>>, "nil")
  /\ hist = [model |-> EmptyMap, clean |-> TRUE, useKeyring |-> FALSE]
  /\ codec = CodecOff
  /\ procs = ProcsOff
  /\ box = BoxOff
  /\ cfg = NewDefaultConfig
  /\ tui = TuiOff

\* cfg.AddProvider(p)
CfgAddProvider(p) ==
  \E res \in {AddProvider(cfg, p)} :
    /\ Len(res.cfg.Providers) <= MaxProviders
    /\ cfg' = res.cfg
    /\ ret' = CfgCall("AddProvider", p.Name, res.err)
    /\ UNCHANGED <<fsys, kr, mgr, hist, codec, procs, box, tui>>

\* cfg.RemoveProvider(name)
CfgRemoveProvider(name) ==
  \E res \in {RemoveProvider(cfg, name)} :
    /\ cfg' = res.cfg
    /\ ret' = CfgCall("RemoveProvider", name, IF res.ok THEN "true" ELSE "false")
    /\ UNCHANGED <<fsys, kr, mgr, hist, codec, procs, box, tui>>

NextConfig ==
  \/ \E p \in ProviderInputs : CfgAddProvider(p)
  \/ \E n \in ConfigNames : CfgRemoveProvider(n)

SpecConfig == InitConfig /\ [][NextConfig]_vars

\* ------------------------------------------------------------------------
\* config.Manager (config.go): the config file, loaded and saved
\* ------------------------------------------------------------------------

\* The config directory: the config file and another file beside it.
ConfigFile == "config.yaml"
RealFile == "real.yaml"
ConfigPaths == {ConfigFile, RealFile}

\* yaml.Marshal of a Config: a document that carries every field; and the
\* bytes of a file that is not YAML.
Marshal(c) == <<"yaml", c>>
NotYaml == <<"{">>

\* yaml.Unmarshal(data, config): an empty document sets nothing, a document
\* sets the fields it carries.
Unmarshal(data, c) ==
  IF data = <<>> THEN [err |-> "nil", cfg |-> c]
  ELSE IF data = NotYaml THEN [err |-> "failed to parse config file", cfg |-> c]
  ELSE [err |-> "nil", cfg |-> data[2]]

\* Manager.applyEnvOverrides: SKINT_DEFAULT_PROVIDER replaces the default
\* provider when it is set.
applyEnvOverrides(c, env) ==
  IF env # <<>> THEN [c EXCEPT !.DefaultProvider = env] ELSE c

\* Manager.Load on the Manager whose config is c (the config directory
\* exists).
ConfigManagerLoad(fs, c, env) ==
  IF Stat(fs, ConfigFile) = "ENOENT" THEN [err |-> "nil", cfg |-> c]
  ELSE IF Lstat(fs, ConfigFile).err # "nil"
  THEN [err |-> "failed to stat config file", cfg |-> c]
  ELSE IF Lstat(fs, ConfigFile).symlink
  THEN [err |-> "config file is a symlink - refusing for security", cfg |-> c]
  ELSE IF ReadFile(fs, ConfigFile).err # "nil"
  THEN [err |-> "failed to read config file", cfg |-> c]
  ELSE LET u == Unmarshal(ReadFile(fs, ConfigFile).data, c)
       IN  IF u.err # "nil" THEN u
           ELSE LET v == ConfigValidate(applyEnvOverrides(u.cfg, env))
                IN  [err |-> IF v.err # "nil" THEN "invalid configuration" ELSE "nil",
                     cfg |-> v.cfg]

\* Manager.Save on the Manager whose config is c.
ConfigManagerSave(fs, c) ==
  LET v == ConfigValidate(c)
      f == OpenFileTrunc(fs, ConfigFile)
  IN  IF v.err # "nil"
      THEN [err |-> "invalid configuration", cfg |-> v.cfg, fsys |-> fs]
      ELSE IF f.err # "nil"
      THEN [err |-> "failed to open config file", cfg |-> v.cfg, fsys |-> fs]
      ELSE [err |-> "nil", cfg |-> v.cfg,
            fsys |-> WriteFile(f.fsys, f.at, Marshal(v.cfg))]

\* ------------------------------------------------------------------------
\* A config.Manager on a config directory others can write to
\* ------------------------------------------------------------------------

\* The values of SKINT_DEFAULT_PROVIDER: unset, or a provider name.
Envs == {<<>>, <<"a">>}

\* The providers the process adds to its config.
LoadProviders ==
  {Provider(<<"a">>, ProviderTypeLocal, "", "", <<>>),
   Provider(<<"b">>, ProviderTypeBuiltin, "u", "", <<>>),
   Provider(<<"b">>, ProviderTypeBuiltin, "", "", <<>>)}

\* What an earlier run may have saved: nothing, or a config with a provider.
SavedConfigs ==
  {NewDefaultConfig,
   [NewDefaultConfig EXCEPT
      !.Providers = <<Provider(<<"a">>, ProviderTypeLocal, "", "", <<>>)>>,
      !.DefaultProvider = <<"a">>]}

\* A process that has called NewManagerWithPath(configFile); the directory
\* may hold a config file, and a file beside it.
InitLoad ==
  /\ \E f \in {NoEntry} \cup {FileEntry(d) : d \in {Marshal(c) : c \in SavedConfigs} \cup {NotYaml}},
        r \in {NoEntry, FileEntry(Marshal(NewDefaultConfig))} :
       fsys = [p \in ConfigPaths |-> IF p = ConfigFile THEN f ELSE r]
  /\ kr = [up |-> FALSE, items |-> EmptyMap]
  /\ mgr = <<>>
  /\ ret = CfgCall("NewManagerWithPath", <<>>, "nil")
  /\ hist = [model |-> EmptyMap, clean |-> TRUE, useKeyring |-> FALSE]
  /\ codec = CodecOff
  /\ procs = ProcsOff
  /\ box = BoxOff
  /\ cfg = NewDefaultConfig
  /\ tui = TuiOff

\* m.Load(), with SKINT_DEFAULT_PROVIDER set to env.
MgrLoad(env) ==
  \E res \in {ConfigManagerLoad(fsys, cfg, env)} :
    /\ cfg' = res.cfg
    /\ ret' = CfgCall("Load", env, res.err)
    /\ UNCHANGED <<fsys, kr, mgr, hist, codec, procs, box, tui>>

\* m.Save()
MgrSave ==
  \E res \in {ConfigManagerSave(fsys, cfg)} :
    /\ cfg' = res.cfg
    /\ fsys' = res.fsys
    /\ ret' = CfgCall("Save", <<>>, res.err)
    /\ UNCHANGED <<kr, mgr, hist, codec, procs, box, tui>>

\* Somebody who can write to the config directory replaces the config file
\* by a symbolic link: to the file beside it (there or not), or to itself.
EnvConfigSymlink(to) ==
  /\ fsys[ConfigFile].kind # "symlink"
  /\ fsys' = [fsys EXCEPT ![ConfigFile] = LinkEntry(to)]
  /\ UNCHANGED <<kr, mgr, ret, hist, codec, procs, box, cfg, tui>>

NextLoad ==
  \/ \E e \in Envs : MgrLoad(e)
  \/ MgrSave
  \/ \E p \in LoadProviders : CfgAddProvider(p)
  \/ \E to \in ConfigPaths : EnvConfigSymlink(to)

SpecLoad == InitLoad /\ [][NextLoad]_vars

\* ------------------------------------------------------------------------
\* Two processes inside Store or Delete, a third inside Retrieve, each step
\* of saveAll on its own: the open that truncates, then the write
\* ------------------------------------------------------------------------

Reader == "r"

\* f.Write(bytes) on a descriptor whose offset is off: the bytes replace what
\* the file holds from off on, and what lies beyond them stays; a file that
\* has become shorter than off is filled up with zero bytes.
WriteAt(fs, at, off, bytes) ==
  LET old == fs[at].data
      kept == IF Len(old) >= off THEN SubSeq(old, 1, off)
              ELSE old \o [i \in 1..(off - Len(old)) |-> <<"zero">>]
  IN  [fs EXCEPT ![at].data =
         kept \o bytes \o SubSeq(old, off + Len(bytes) + 1, Len(old))]

\* A writer before its call, and the reader before its call.
IdleWriter ==
  [pc |-> "idle", op |-> "", name |-> <<>>, secrets |-> EmptyMap,
   out |-> <<>>, off |-> 0, err |-> "nil"]
IdleReader ==
  [pc |-> "idle", name |-> <<>>, err |-> "nil", val |-> <<>>, could |-> {}]

\* What Retrieve(p) returns on the directory fs when nothing else runs.
Outcome(fs, p) == FileStoreRetrieve(fs, NewFileStore(Machine), p)

InitTear ==
  /\ \E s \in InitSecrets :
       /\ fsys = DirWith(s)
       /\ hist = [settled |-> DirWith(s)]
  /\ kr = [up |-> FALSE, items |-> EmptyMap]
  /\ mgr = NewManager(kr, Machine)
  /\ cfg = CfgOff
  /\ tui = TuiOff
  /\ ret = FsCall("NewFileStore", <<>>, <<>>, "nil", <<>>)
  /\ codec = CodecOff
  /\ procs = [i \in Procs \cup {Reader} |-> IF i = Reader THEN IdleReader ELSE IdleWriter]
  /\ box = BoxOff

\* Process i enters Store(p, k) or Delete(p), runs loadAll and updates the
\* map it loaded.
TearLoad(i, op, p, k) ==
  /\ procs[i].pc = "idle"
  /\ \E loaded \in {loadAll(fsys, NewFileStore(Machine))} :
       procs' = [procs EXCEPT ![i] =
                   [pc |-> IF loaded.err = "nil" THEN "loaded" ELSE "done",
                    op |-> op, name |-> p,
                    secrets |-> IF loaded.err # "nil" THEN EmptyMap
                                ELSE IF op = "Store" THEN Put(loaded.secrets, p, k)
                                ELSE Remove(loaded.secrets, p),
                    out |-> <<>>, off |-> 0, err |-> loaded.err]]
  /\ UNCHANGED <<fsys, kr, mgr, ret, hist, codec, box, cfg, tui>>

\* Process i, in saveAll, encrypts the text of its map and opens the blob
\* with O_TRUNC: the file is empty from now on.
TearOpen(i) ==
  /\ procs[i].pc = "loaded"
  /\ \E r \in Nonces :
       \E f \in {OpenFileTrunc(fsys, secretsFile(NewFileStore(Machine)))} :
         /\ fsys' = f.fsys
         /\ procs' = [procs EXCEPT
                        ![i].pc = "opened",
                        ![i].out = Encrypt(NewCipher(Machine), r,
                                           SerializeSecrets(procs[i].secrets))]
  /\ UNCHANGED <<kr, mgr, ret, hist, codec, box, cfg, tui>>

\* Process i's f.Write(encrypted) reaches the file: first the nonce (whole
\* is FALSE), then the rest; with the last byte the call is complete, and a
\* Retrieve that is under way could from now on see its outcome.
TearWrite(i, whole) ==
  /\ procs[i].pc = "opened"
  /\ whole \/ procs[i].off = 0
  /\ \E bytes \in {IF whole
                   THEN SubSeq(procs[i].out, procs[i].off + 1, Len(procs[i].out))
                   ELSE SubSeq(procs[i].out, 1, NonceSize)} :
       \E fs \in {WriteAt(fsys, SecretsEnc, procs[i].off, bytes)} :
         /\ fsys' = fs
         /\ hist' = IF whole THEN [settled |-> fs] ELSE hist
         /\ procs' = [j \in DOMAIN procs |->
                        IF j = i
                        THEN [procs[j] EXCEPT !.off = @ + Len(bytes),
                                              !.pc = IF whole THEN "done" ELSE @]
                        ELSE IF j = Reader /\ whole /\ procs[j].pc \in {"called", "reading"}
                        THEN [procs[j] EXCEPT
                                !.could = @ \cup {Outcome(fs, procs[j].name)}]
                        ELSE procs[j]]
  /\ UNCHANGED <<kr, mgr, ret, codec, box, cfg, tui>>

\* The reader enters Retrieve(p): the values p has had since the write under
\* way (if any) began are those it could return.
ReadCall(p) ==
  /\ procs[Reader].pc = "idle"
  /\ procs' = [procs EXCEPT ![Reader] =
                 [pc |-> "called", name |-> p, err |-> "nil", val |-> <<>>,
                  could |-> {Outcome(hist.settled, p)}]]
  /\ UNCHANGED <<fsys, kr, mgr, ret, hist, codec, box, cfg, tui>>

\* The reader's loadAll asks os.Stat for the blob: with no blob there it
\* returns an empty map, and Retrieve finds no key.
ReadStat ==
  /\ procs[Reader].pc = "called"
  /\ procs' = [procs EXCEPT ![Reader] =
                 IF Stat(fsys, SecretsEnc) = "ENOENT"
                 THEN [@ EXCEPT !.pc = "done", !.err = ErrNoKey]
                 ELSE [@ EXCEPT !.pc = "reading"]]
  /\ UNCHANGED <<fsys, kr, mgr, ret, hist, codec, box, cfg, tui>>

\* The reader's loadAll reads the blob as it is now, decrypts and parses it,
\* and Retrieve returns.
ReadFinish ==
  /\ procs[Reader].pc = "reading"
  /\ \E res \in {Outcome(fsys, procs[Reader].name)} :
       procs' = [procs EXCEPT ![Reader].pc = "done",
                              ![Reader].err = res.err,
                              ![Reader].val = res.val]
  /\ UNCHANGED <<fsys, kr, mgr, ret, hist, codec, box, cfg, tui>>

NextTear ==
  \/ \E i \in Procs, p \in RaceNames, k \in {<<"k">>} : TearLoad(i, "Store", p, k)
  \/ \E i \in Procs, p \in RaceNames : TearLoad(i, "Delete", p, <<>>)
  \/ \E i \in Procs : TearOpen(i)
  \/ \E i \in Procs, whole \in BOOLEAN : TearWrite(i, whole)
  \/ \E p \in RaceNames : ReadCall(p)
  \/ ReadStat
  \/ ReadFinish

SpecTear == InitTear /\ [][NextTear]_vars

\* ------------------------------------------------------------------------
\* The command `skint config remove <name>` (commands/config.go)
\* ------------------------------------------------------------------------

\* strings.Cut(s, sep) for a one-character separator.
Cut(s, sep) ==
  LET i == Index(s, sep)
  IN  IF i = 0 THEN [before |-> s, after |-> <<>>, found |-> FALSE]
      ELSE [before |-> SubSeq(s, 1, i - 1), after |-> SubSeq(s, i + 1, Len(s)),
            found |-> TRUE]

\* The RunE of NewConfigRemoveCmd on the context cc = [Cfg, SecretsMgr], the
\* keyring and the directory; yes tells whether the removal is confirmed
\* (--yes, or the answer to the prompt), r is the nonce a rewrite of the
\* blob draws.
ConfigRemoveRunE(cc, k, fs, name, yes, r) ==
  LET at == GetProvider(cc.Cfg, name)
      p == cc.Cfg.Providers[at]
      removed == RemoveProvider(cc.Cfg, name)
      ref == Cut(p.APIKeyRef, COLON)
      deleted == IF p.APIKeyRef # <<>> /\ ref.found /\ ref.after # <<>>
                 THEN ManagerDelete(cc.SecretsMgr, k, fs, ref.after, r, NoFault)
                 ELSE Result("nil", <<>>, k, fs, {})
      saved == ConfigManagerSave(deleted.fsys, removed.cfg)
  IN  IF ~yes THEN [err |-> "nil", cfg |-> cc.Cfg, kr |-> k, fsys |-> fs]
      ELSE IF at = 0
      THEN [err |-> "provider not found", cfg |-> cc.Cfg, kr |-> k, fsys |-> fs]
      ELSE IF ~removed.ok
      THEN [err |-> "failed to remove provider", cfg |-> removed.cfg, kr |-> k, fsys |-> fs]
      ELSE [err |-> IF saved.err # "nil" THEN "failed to save config" ELSE "nil",
            cfg |-> saved.cfg, kr |-> deleted.kr, fsys |-> saved.fsys]

\* The provider names of the configs under test, and a name in no config.
RemoveNames == {<<"a">>, <<"b">>}
NoSuchName == <<"x">>

\* The provider of a name as an earlier run configured it: with a reference
\* to its API key in the backend in use, or with none.
Configured(name, type, hasRef) ==
  Provider(name, ProviderTypeLocal, "", "",
           IF hasRef THEN Reference(type, name) ELSE <<>>)

\* The configs an earlier run may have saved, with references of the type:
\* up to two providers, in either order, and a default among them or none.
RemoveConfigs(type) ==
  {[NewDefaultConfig EXCEPT !.Providers = ps, !.DefaultProvider = d] :
     ps \in {<<>>}
            \cup {<<Configured(n, type, h)>> : n \in RemoveNames, h \in BOOLEAN}
            \cup {<<Configured(n, type, h), Configured(m, type, g)>> :
                    n \in RemoveNames, m \in RemoveNames, h \in BOOLEAN, g \in BOOLEAN},
     d \in {<<>>} \cup RemoveNames}

\* The directory with the config file and the blob of the secret set s.
DirWithConfig(c, s) ==
  [p \in Paths \cup {ConfigFile} |->
     IF p = ConfigFile THEN FileEntry(Marshal(c)) ELSE DirWith(s)[p]]

\* A skint process has started (root.go): the config is loaded from the
\* file an earlier run saved, the secrets Manager is built; the keyring or
\* the blob holds the keys of some of the names.
InitRemove ==
  \E up \in BOOLEAN, S \in SUBSET RemoveNames :
    \E c \in RemoveConfigs(IF up THEN StorageTypeKeyring ELSE StorageTypeFile) :
      \E s \in {[n \in S |-> <<"k">>]} :
        /\ ConfigValidate(c).err = "nil"
        /\ kr = [up |-> up, items |-> IF up THEN s ELSE EmptyMap]
        /\ fsys = DirWithConfig(c, IF up THEN EmptyMap ELSE s)
        /\ mgr = NewManager(kr, Machine)
        /\ cfg = ConfigManagerLoad(fsys, NewDefaultConfig, <<>>).cfg
        /\ ret = CfgCall("Load", <<>>, "nil")
        /\ hist = [model |-> EmptyMap, clean |-> TRUE, useKeyring |-> up]
        /\ codec = CodecOff
        /\ procs = ProcsOff
        /\ box = BoxOff
        /\ tui = TuiOff

\* skint config remove <name>
ConfigRemove(name, yes) ==
  \E r \in Nonces :
    \E res \in {ConfigRemoveRunE([Cfg |-> cfg, SecretsMgr |-> mgr], kr, fsys,
                                 name, yes, r)} :
      /\ cfg' = res.cfg
      /\ kr' = res.kr
      /\ fsys' = res.fsys
      /\ ret' = CfgCall("config remove", name, res.err)
      /\ UNCHANGED <<mgr, hist, codec, procs, box, tui>>

NextRemove ==
  \E name \in RemoveNames \cup {NoSuchName}, yes \in BOOLEAN : ConfigRemove(name, yes)

SpecRemove == InitRemove /\ [][NextRemove]_vars

\* ------------------------------------------------------------------------
\* The config TUI (tui/updates.go): the screens that change the Config
\* ------------------------------------------------------------------------

Zai == <<"z", "a", "i">>
Ollama == <<"o", "l", "l", "a", "m", "a">>

\* Registry.registerBuiltins: the definitions the provider list shows.
Definitions ==
  {[Name |-> Native, Type |-> ProviderTypeBuiltin, BaseURL |-> ""],
   [Name |-> Anthropic, Type |-> ProviderTypeBuiltin, BaseURL |-> ""],
   [Name |-> Zai, Type |-> ProviderTypeBuiltin, BaseURL |-> "https://api.z.ai/api/anthropic"],
   [Name |-> Ollama, Type |-> ProviderTypeLocal, BaseURL |-> "http://localhost:11434"]}

\* Provider.IsConfigured: no key is needed (Provider.NeedsAPIKey), or a
\* reference to one is set.
IsConfigured(p) ==
  ~(p.Type # ProviderTypeLocal /\ p.Name # Native) \/ p.APIKeyRef # <<>>

\* ProviderItem.configured as refreshProviderList sets it for a definition:
\* always for the Native group, by the config for the others.
ItemConfigured(c, def) ==
  IF def.Name \in {Native, Anthropic} THEN TRUE
  ELSE IF def.Name = Ollama THEN GetProvider(c, def.Name) # 0
  ELSE GetProvider(c, def.Name) # 0 /\ IsConfigured(c.Providers[GetProvider(c, def.Name)])

\* NewModel: the main screen, nothing selected.
NewModel ==
  [screen |-> "ScreenMain", selectedProvider |-> <<>>, customProviderName |-> <<>>,
   successOption |-> 0, done |-> FALSE, resultAction |-> ""]

\* The success screen as the handlers open it.
ToSuccess(m) == [m EXCEPT !.screen = "ScreenSuccess", !.successOption = 0]

\* Model.handleProviderSelect on the item of the definition def.
handleProviderSelect(m, c, def) ==
  LET p == GetProvider(c, def.Name)
      isConfigured == ItemConfigured(c, def) \/ (p # 0 /\ IsConfigured(c.Providers[p]))
  IN  IF isConfigured
      THEN [tui |-> ToSuccess([m EXCEPT !.selectedProvider = def.Name]),
            cfg |-> [c EXCEPT !.DefaultProvider = def.Name]]
      ELSE IF def.Name = Native
      THEN [tui |-> ToSuccess(m), cfg |-> [c EXCEPT !.DefaultProvider = def.Name]]
      ELSE IF def.Type = ProviderTypeLocal
      THEN [tui |-> [m EXCEPT !.screen = "ScreenProviderConfig"], cfg |-> c]
      ELSE [tui |-> [m EXCEPT !.screen = "ScreenAPIKeyInput"], cfg |-> c]

\* Model.updateMainScreen for Enter on the item of def.
updateMainScreenEnter(m, c, def) ==
  handleProviderSelect([m EXCEPT !.selectedProvider = def.Name], c, def)

\* The definition that is selected.
Selected(m) == CHOOSE def \in Definitions : def.Name = m.selectedProvider

\* Model.submitLocalProvider with the URL the form holds.
submitLocalProvider(m, c, url) ==
  LET def == Selected(m)
      added == AddProvider(RemoveProvider(c, def.Name).cfg,
                           Provider(def.Name, def.Type, url, "", <<>>))
  IN  IF m.selectedProvider = <<>> THEN [tui |-> m, cfg |-> c]
      ELSE IF added.err # "nil"
      THEN [tui |-> [m EXCEPT !.screen = "ScreenError"], cfg |-> added.cfg]
      ELSE [tui |-> ToSuccess(m), cfg |-> added.cfg]

\* Model.updateAPIKeyInput for Enter with a new key in the form; stored is
\* the result of StoreWithReference.
submitAPIKey(m, c, stored) ==
  LET def == Selected(m)
      added == AddProvider(RemoveProvider(c, def.Name).cfg,
                           Provider(def.Name, def.Type, def.BaseURL, "", stored.val))
  IN  IF stored.err # "nil" \/ added.err # "nil"
      THEN [tui |-> m, cfg |-> IF stored.err # "nil" THEN c ELSE added.cfg]
      ELSE [tui |-> ToSuccess(m), cfg |-> added.cfg]

\* Model.updateSuccessScreen for the key msg.
updateSuccessScreen(m, c, msg) ==
  LET providerName == IF m.selectedProvider # <<>> THEN m.selectedProvider
                      ELSE m.customProviderName
      hasLaunchOption == providerName # <<>>
      returnToMain == [tui |-> [m EXCEPT !.screen = "ScreenMain", !.successOption = 0,
                                         !.customProviderName = <<>>],
                       cfg |-> c]
      quit == [tui |-> m, cfg |-> c]
  IN  CASE msg = "KeyCtrlC" -> [tui |-> [m EXCEPT !.done = TRUE], cfg |-> c]
        [] msg \in {"KeyUp", "KeyDown", "KeyTab"} ->
             [tui |-> IF hasLaunchOption
                      THEN [m EXCEPT !.successOption = 1 - @] ELSE m,
              cfg |-> c]
        [] msg = "KeyEnter" ->
             IF hasLaunchOption /\ m.successOption = 1
             THEN [tui |-> [m EXCEPT !.resultAction = "launch", !.done = TRUE],
                   cfg |-> [c EXCEPT !.DefaultProvider = providerName]]
             ELSE IF m.done THEN quit ELSE returnToMain
        [] msg = "KeyEsc" -> returnToMain
        [] OTHER -> IF hasLaunchOption \/ m.done THEN quit ELSE returnToMain

\* The keys pressed on the success screen.
SuccessKeys == {"KeyCtrlC", "KeyTab", "KeyEnter", "KeyEsc", "KeyRunes"}

\* skint config on a fresh installation: the default config, no config
\* file, a keyring that works.
InitTui ==
  /\ kr = [up |-> TRUE, items |-> EmptyMap]
  /\ fsys = [p \in Paths \cup {ConfigFile} |-> NoEntry]
  /\ mgr = NewManager(kr, Machine)
  /\ cfg = NewDefaultConfig
  /\ tui = NewModel
  /\ ret = CfgCall("NewModel", <<>>, "nil")
  /\ hist = [model |-> EmptyMap, clean |-> TRUE, useKeyring |-> TRUE]
  /\ codec = CodecOff
  /\ procs = ProcsOff
  /\ box = BoxOff

\* A step of the TUI that leaves the model m and the config c.
TuiStep(op, arg, res) ==
  /\ tui' = res.tui
  /\ cfg' = res.cfg
  /\ ret' = CfgCall(op, arg, "nil")

\* Enter on the item of def in the provider list.
TuiSelect(def) ==
  /\ tui.screen = "ScreenMain" /\ ~tui.done
  /\ TuiStep("handleProviderSelect", def.Name, updateMainScreenEnter(tui, cfg, def))
  /\ UNCHANGED <<fsys, kr, mgr, hist, codec, procs, box>>

\* Enter on the local provider's form, with a URL that passes its checks.
TuiSubmitLocal ==
  /\ tui.screen = "ScreenProviderConfig" /\ ~tui.done
  /\ TuiStep("submitLocalProvider", tui.selectedProvider,
             submitLocalProvider(tui, cfg, Selected(tui).BaseURL))
  /\ UNCHANGED <<fsys, kr, mgr, hist, codec, procs, box>>

\* Enter on the API key form, with a key that passes its checks.
TuiSubmitAPIKey ==
  /\ tui.screen = "ScreenAPIKeyInput" /\ ~tui.done
  /\ \E stored \in {StoreWithReference(mgr, kr, fsys, tui.selectedProvider,
                                       <<"k">>, 1, NoFault)} :
       /\ kr' = stored.kr
       /\ TuiStep("updateAPIKeyInput", tui.selectedProvider,
                  submitAPIKey(tui, cfg, stored))
  /\ UNCHANGED <<fsys, mgr, hist, codec, procs, box>>

\* A key on the success screen.
TuiSuccessKey(msg) ==
  /\ tui.screen = "ScreenSuccess" /\ ~tui.done
  /\ TuiStep("updateSuccessScreen", <<>>, updateSuccessScreen(tui, cfg, msg))
  /\ UNCHANGED <<fsys, kr, mgr, hist, codec, procs, box>>

\* q on the main screen: the TUI is done.
TuiQuit ==
  /\ tui.screen = "ScreenMain" /\ ~tui.done
  /\ TuiStep("updateMainScreen", <<>>, [tui |-> [tui EXCEPT !.done = TRUE], cfg |-> cfg])
  /\ UNCHANGED <<fsys, kr, mgr, hist, codec, procs, box>>

\* RunInteractive after the TUI has returned with Done: the config is saved.
TuiSave ==
  /\ tui.done /\ tui.screen # "exited"
  /\ \E saved \in {ConfigManagerSave(fsys, cfg)} :
       /\ fsys' = saved.fsys
       /\ cfg' = saved.cfg
       /\ tui' = [tui EXCEPT !.screen = "exited"]
       /\ ret' = CfgCall("SaveConfig", <<>>, saved.err)
  /\ UNCHANGED <<kr, mgr, hist, codec, procs, box>>

NextTui ==
  \/ \E def \in Definitions : TuiSelect(def)
  \/ TuiSubmitLocal
  \/ TuiSubmitAPIKey
  \/ \E msg \in SuccessKeys : TuiSuccessKey(msg)
  \/ TuiQuit
  \/ TuiSave

SpecTui == InitTui /\ [][NextTui]_vars

\* ------------------------------------------------------------------------
\* Properties
\* ------------------------------------------------------------------------

\* C1: on a FileStore used by one process, while every Store and Delete so
\* far succeeded with names and values of letters, digits and hyphens,
\* Retrieve(p) returns the value of the latest Store(p, v) not followed by a
\* Delete(p), and the not-found error otherwise.
C1_RetrieveLatest ==
  (hist.clean /\ ret.op = "FileStore.Retrieve")
    => IF ret.arg \in DOMAIN hist.model
       THEN ret.err = "nil" /\ ret.val = hist.model[ret.arg]
       ELSE ret.err = ErrNoKey /\ ret.val = <<>>

\* A Retrieve that returns the overwritten value of one name while another
\* name is stored too.
C1_Witness ==
  /\ hist.clean
  /\ ret.op = "FileStore.Retrieve" /\ ret.arg = <<"a">>
  /\ ret.err = "nil" /\ ret.val = <<"x">>
  /\ <<"b">> \in DOMAIN hist.model /\ hist.model[<<"b">>] = <<"k">>

\* C2: a successful FileStore.Store(p, v) or FileStore.Delete(p) leaves the
\* result of Retrieve(q) as it was, for every name p and every other name q.
C2_StoreDeleteFrame ==
  [][\A p \in ProviderNames :
       (((\E k \in APIKeys : FsStore(p, k)) \/ FsDelete(p)) /\ ret'.err = "nil")
         => \A q \in ProviderNames \ {p} :
              FileStoreRetrieve(fsys', TheFileStore, q)
                = FileStoreRetrieve(fsys, TheFileStore, q)]_vars

\* C3: loadAll's parse of the text saveAll serializes from a secret set is
\* that secret set.
C3_CodecRoundTrip == codec.phase = "loaded" => codec.parsed = codec.secrets

\* C4: FileStore.Retrieve called while secrets.enc is a symbolic link fails
\* with the symlink error, whatever the link points to.
C4_SymlinkRefused ==
  [][\A p \in ProviderNames :
       (FsRetrieve(p) /\ fsys[SecretsEnc].kind = "symlink")
         => ret'.err = ErrSymlink /\ ret'.val = <<>>]_vars

\* C5: in either backend mode, RetrieveByReference answers a keyring:<name>
\* reference with what the keyring answers for the name, and a file:<name>
\* reference whose name is in the blob with the secret the blob holds.
C5_DispatchOnTag ==
  [][\A p \in ManagerNames \cup {<<"b">>} :
       /\ RetrieveRef(Reference(StorageTypeKeyring, p))
            => /\ ret'.err = keyringGet(kr, p).err
               /\ ret'.val = keyringGet(kr, p).val
       /\ (/\ RetrieveRef(Reference(StorageTypeFile, p))
           /\ FileStoreRetrieve(fsys, TheFileStore, p).err = "nil")
            => /\ ret'.err = "nil"
               /\ ret'.val = FileStoreRetrieve(fsys, TheFileStore, p).val]_vars

\* C6: when StoreWithReference(p, k) succeeds and returns r,
\* RetrieveByReference(r) on the same Manager returns k.
C6_ReferenceRoundTrip ==
  [][\A p \in ManagerNames, k \in APIKeys :
       (StoreRef(p, k) /\ ret'.err = "nil")
         => /\ RetrieveByReference(mgr', kr', fsys', ret'.val).err = "nil"
            /\ RetrieveByReference(mgr', kr', fsys', ret'.val).val = k]_vars

\* A reference with no colon, or whose tag before the first colon is neither
\* keyring nor file.
BadReference(ref) ==
  \/ \A i \in 1..Len(ref) : ref[i] # COLON
  \/ \E i \in 1..Len(ref) :
       /\ ref[i] = COLON
       /\ \A j \in 1..(i - 1) : ref[j] # COLON
       /\ SubSeq(ref, 1, i - 1) \notin {StorageTypeKeyring, StorageTypeFile}

\* C7: RetrieveByReference of a reference with no colon or with an unknown
\* tag returns an error and calls neither the keyring nor the file store.
C7_BadReferenceRejected ==
  (ret.op = "RetrieveByReference" /\ BadReference(ret.arg))
    => ret.err # "nil" /\ ret.val = <<>> /\ ret.touched = {}

\* RetrieveByReference has rejected a reference with an unknown tag.
C7_Witness ==
  /\ ret.op = "RetrieveByReference"
  /\ ret.arg = <<"x", COLON, "a">>
  /\ ret.err = ErrUnknownRef

\* The backend a Manager built with useKeyring calls.
BackendOf(useKeyring) == IF useKeyring THEN {"keyring"} ELSE {"file"}

\* C8: the Manager's useKeyring stays what the probe in NewManager gave,
\* whatever the keyring does later: IsKeyringAvailable returns it, and Store,
\* Retrieve and Delete call the backend it names.
C8_BackendFixed ==
  /\ mgr.useKeyring = hist.useKeyring
  /\ ret.op = "IsKeyringAvailable"
       => ret.val = IF hist.useKeyring THEN <<"true">> ELSE <<"false">>
  /\ ret.op \in {"Store", "Retrieve", "Delete"}
       => ret.touched = BackendOf(hist.useKeyring)

\* A Manager built while the keyring was up has called the keyring for a
\* Store after the keyring went down, and the keyring refused it.
C8_Witness ==
  /\ hist.useKeyring /\ ~kr.up
  /\ ret.op = "Store" /\ ret.err = ErrKeyring /\ ret.touched = {"keyring"}

\* The secret k is stored under p: in the keyring, or as a line of the
\* blob's plaintext.
StoredIn(useKeyring, p, k) ==
  IF useKeyring
  THEN p \in DOMAIN kr.items /\ kr.items[p] = k
  ELSE LET d == Decrypt(TheFileStore.cipher, fsys[SecretsEnc].data)
           lines == Split(d.plaintext, NL)
       IN  /\ fsys[SecretsEnc].kind = "file"
           /\ d.err = "nil"
           /\ \E i \in 1..Len(lines) : lines[i] = p \o <<EQ>> \o EscapeValue(k)

\* C9: StoreWithReference(p, k) returns keyring:p in keyring mode and file:p
\* in file mode, with the secret stored, or else an error and no reference.
C9_ReferenceNamesBackend ==
  ret.op = "StoreWithReference"
    => IF ret.err = "nil"
       THEN /\ ret.val = Reference(IF hist.useKeyring THEN StorageTypeKeyring
                                   ELSE StorageTypeFile, ret.arg)
            /\ StoredIn(hist.useKeyring, ret.arg, ret.key)
       ELSE ret.val = <<>>

\* StoreWithReference has stored a secret in file mode, and returned its
\* file reference, while the keyring was up.
C9_Witness ==
  /\ ~hist.useKeyring /\ kr.up
  /\ ret.op = "StoreWithReference" /\ ret.err = "nil"
  /\ ret.val = Reference(StorageTypeFile, <<"a">>)

\* C10: a FileStore.Store or FileStore.Delete that fails leaves the blob
\* file with the contents it had.
C10_AtomicReplace ==
  [][\A p \in ProviderNames :
       (/\ (\E k \in APIKeys : FsStore(p, k)) \/ FsDelete(p)
        /\ ret'.err # "nil"
        /\ fsys[SecretsEnc].kind = "file")
         => fsys' = fsys]_vars

\* The blob file exists and does not decrypt: it is shorter than the nonce,
\* or it fails authentication.
Corrupt ==
  /\ fsys[SecretsEnc].kind = "file"
  /\ Decrypt(TheFileStore.cipher, fsys[SecretsEnc].data).err # "nil"

\* C11: while the blob file exists and is shorter than the nonce or fails
\* authentication, FileStore.Retrieve, Store and Delete each return the
\* decryption error (too short, or not authentic), never the not-found error
\* and never success, and leave every file as it was.
C11_CorruptFailsClosed ==
  Corrupt =>
    LET fs == TheFileStore
        want == IF Len(fsys[SecretsEnc].data) < NonceSize
                THEN ErrDecryptShort ELSE ErrDecryptAuth
    IN  /\ want \notin {"nil", ErrNoKey}
        /\ ret.op \in {"FileStore.Store", "FileStore.Retrieve", "FileStore.Delete"}
             => ret.err # ErrNoKey
        /\ \A p \in ProviderNames :
             /\ FileStoreRetrieve(fsys, fs, p) = [err |-> want, val |-> <<>>]
             /\ \A r \in Nonces, fault \in Faults(fs, EmptyMap) :
                  /\ FileStoreDelete(fsys, fs, p, r, fault) = [err |-> want, fsys |-> fsys]
                  /\ \A k \in APIKeys :
                       FileStoreStore(fsys, fs, p, k, r, fault)
                         = [err |-> want, fsys |-> fsys]

\* A Store has been refused because the blob, cut short by an earlier failed
\* write, does not authenticate.
C11_Witness ==
  /\ Corrupt
  /\ Len(fsys[SecretsEnc].data) >= NonceSize
  /\ ret.op = "FileStore.Store" /\ ret.err = ErrDecryptAuth

\* C12: while there is no blob file, FileStore.Retrieve of any name returns
\* the not-found error, FileStore.Store(p, k) succeeds unless the operating
\* system fails the write, and after it succeeds the blob loads as the
\* secret set that holds p -> k and nothing else.
C12_MissingBlobBootstrap ==
  [][fsys[SecretsEnc].kind = "none" =>
       \A p \in ProviderNames :
         /\ FsRetrieve(p) => ret'.err = ErrNoKey /\ ret'.val = <<>>
         /\ \A k \in APIKeys :
              /\ \A r \in Nonces :
                   FileStoreStore(fsys, TheFileStore, p, k, r, NoFault).err = "nil"
              /\ (FsStore(p, k) /\ ret'.err = "nil")
                   => loadAll(fsys', TheFileStore)
                        = [err |-> "nil", secrets |-> Put(EmptyMap, p, k)]]_vars

\* C13: on a blob that loads (or is missing), FileStore.Delete(p) of a name
\* that is not stored returns no error when the write meets no fault, also
\* when p has just been deleted, and a second Delete(p) leaves the secret set
\* the first one left.
C13_DeleteAbsentIdempotent ==
  LET fs == TheFileStore
      loaded == loadAll(fsys, fs)
  IN  loaded.err = "nil" =>
        \A p \in ProviderNames : \A r1 \in Nonces, r2 \in Nonces :
          LET once == FileStoreDelete(fsys, fs, p, r1, NoFault)
              twice == FileStoreDelete(once.fsys, fs, p, r2, NoFault)
          IN  /\ p \notin DOMAIN loaded.secrets => once.err = "nil"
              /\ (once.err = "nil" /\ loadAll(once.fsys, fs).err = "nil")
                   => twice.err = "nil"
              /\ loadAll(twice.fsys, fs) = loadAll(once.fsys, fs)

\* Delete has returned no error on a directory where nothing was stored, and
\* has left a blob that holds no secret.
C13_Witness ==
  /\ ret.op = "FileStore.Delete" /\ ret.arg = <<"b">> /\ ret.err = "nil"
  /\ hist.clean /\ hist.model = EmptyMap
  /\ loadAll(fsys, TheFileStore) = [err |-> "nil", secrets |-> EmptyMap]
  /\ fsys[SecretsEnc].kind = "file"

\* C14: after a FileStore.Store or FileStore.Delete that returns no error,
\* the blob file's permissions are 0600, whether the call created the file
\* or rewrote one, whatever its permissions were.
C14_OwnerOnlyAfterWrite ==
  [][\A p \in DirNames :
       (/\ (\E k \in APIKeys : FsStore(p, k)) \/ FsDelete(p)
        /\ ret'.err = "nil"
        /\ fsys'[SecretsEnc].kind = "file")
         => fsys'[SecretsEnc].mode = OwnerOnly]_vars

\* C16: once NewFileStore has returned there is no .key file in the data
\* directory, and no file holds a byte of the derived key.
C16_KeyNeverOnDisk ==
  /\ fsys[KeyFile].kind = "none"
  /\ \A path \in Paths : \A i \in 1..Len(fsys[path].data) :
       fsys[path].data[i][1] # "key"

\* C15: a second FileStore constructed on the same data directory and
\* machine holds the key the first one holds, and its Retrieve(p) returns k
\* after the first one's Store(p, k) has succeeded.
C15_SecondInstanceReads ==
  [][/\ SecondFileStore.cipher.key = TheFileStore.cipher.key
     /\ \A p \in ProviderNames, k \in APIKeys :
          (FsStore(p, k) /\ ret'.err = "nil" /\ fsys'[SecretsEnc].kind = "file")
            => FileStoreRetrieve(fsys', SecondFileStore, p)
                 = [err |-> "nil", val |-> k]]_vars

\* C17: nothing serializes the load and the save of two processes' Store
\* calls: the blob always holds what its latest writer loaded plus that
\* writer's own entry, whatever another process saved in between.
C17_LastWriterOverwrites ==
  \A i \in Procs :
    (procs # ProcsOff /\ procs[i].pc = "done" /\ procs[i].last)
      => loadAll(fsys, TheFileStore)
           = [err |-> "nil",
              secrets |-> Put(procs[i].secrets, procs[i].name, procs[i].key)]

\* Both processes' Store calls have returned no error, p2 saved last, and
\* the blob lacks the name p1 stored.
C17_Witness ==
  /\ procs # ProcsOff
  /\ procs["p1"].pc = "done" /\ procs["p1"].err = "nil"
  /\ procs["p2"].pc = "done" /\ procs["p2"].err = "nil" /\ procs["p2"].last
  /\ procs["p1"].name = <<"a">> /\ procs["p2"].name = <<"b">>
  /\ <<"a">> \notin DOMAIN loadAll(fsys, TheFileStore).secrets

\* C18: Decrypt of an Encrypt output in which one bit was inverted returns
\* the authentication error and no plaintext, wherever the bit is: in the
\* nonce, in the ciphertext or in the tag.
C18_BitFlipRejected ==
  box.phase = "checked"
    => box.out = [err |-> "failed to decrypt", plaintext |-> <<>>]

\* Decrypt has rejected sealed bytes whose first ciphertext byte, after the
\* nonce, had a bit inverted.
C18_Witness ==
  /\ box.phase = "checked"
  /\ Len(box.plaintext) = MaxPlainLen
  /\ box.data[NonceSize + 1][1] = "flip"
  /\ box.out.err = "failed to decrypt"

\* C19: Decrypt of what Encrypt made of a plaintext P, on the same Cipher,
\* returns P and no error, the empty P included, under every nonce; and two
\* nonces give two different outputs for the same P.
C19_CipherRoundTrip ==
  /\ box.phase = "opened" => box.out = [err |-> "nil", plaintext |-> box.plaintext]
  /\ box.phase = "input" =>
       \A r1 \in Nonces : \A r2 \in Nonces \ {r1} :
         Encrypt(NewCipher(Machine), r1, box.plaintext)
           # Encrypt(NewCipher(Machine), r2, box.plaintext)

\* Decrypt has returned the empty plaintext that Encrypt had sealed.
C19_Witness ==
  /\ box.phase = "opened"
  /\ box.plaintext = <<>>
  /\ Len(box.data) = NonceSize + TagSize
  /\ box.out = [err |-> "nil", plaintext |-> <<>>]

\* The names of a slice are in strictly ascending byte order.
Ascending(names) ==
  \A i \in 1..(Len(names) - 1) : StrLess(names[i], names[i + 1])

\* C20: the plaintext saveAll builds from a secret set is the same whatever
\* order the range over the map takes, and has one line per name, the names
\* ascending.
C20_SortedPlaintext ==
  codec.phase = "saved" =>
    LET lines == Split(codec.text, NL)
        n == Cardinality(DOMAIN codec.secrets)
    IN  /\ \A ranged \in RangeOrders(DOMAIN codec.secrets) :
             SerializeSecretsFrom(codec.secrets, ranged) = codec.text
        /\ n = 0 => codec.text = <<>>
        /\ n > 0 =>
             /\ Len(lines) = n
             /\ \E names \in RangeOrders(DOMAIN codec.secrets) :
                  /\ Ascending(names)
                  /\ \A i \in 1..n :
                       lines[i] = names[i] \o <<EQ>> \o EscapeValue(codec.secrets[names[i]])

\* saveAll has written two names, a before b, one line each.
C20_Witness ==
  /\ codec.phase = "saved"
  /\ DOMAIN codec.secrets = {<<"a">>, <<"b">>}
  /\ codec.secrets[<<"a">>] = <<"k">> /\ codec.secrets[<<"b">>] = <<"n">>
  /\ codec.text = <<"a", EQ, "k", NL, "b", EQ, "n">>

\* The number of colons in a string.
RECURSIVE Colons(_)
Colons(s) ==
  IF s = <<>> THEN 0
  ELSE (IF Head(s) = COLON THEN 1 ELSE 0) + Colons(Tail(s))

\* C21: RetrieveByReference of a reference with more than one colon returns
\* an error and no secret: it does not take part of the reference for a
\* provider name and return that name's secret.
C21_ExtraColonRejected ==
  (ret.op = "RetrieveByReference" /\ Colons(ret.arg) > 1)
    => ret.err # "nil" /\ ret.val = <<>>

\* The name p holds no secret in the backend the Manager uses, and that
\* backend answers.
HoldsNothing(p) ==
  IF mgr.useKeyring
  THEN kr.up /\ p \notin DOMAIN kr.items
  ELSE /\ loadAll(fsys, mgr.fileStore[1]).err = "nil"
       /\ p \notin DOMAIN loadAll(fsys, mgr.fileStore[1]).secrets

\* C22: Manager.Delete(p) of a name that holds no secret does not fail for
\* the name being absent, in keyring mode as in file mode: it returns no
\* error, unless writing the blob fails.
C22_DeleteAbsentNoError ==
  [][\A p \in ManagerNames :
       (HoldsNothing(p) /\ Delete(p)) => ret'.err \in {"nil", ErrOpen, ErrWrite}]_vars

\* No two providers of the list share a name.
UniqueNames(c) ==
  \A i \in 1..Len(c.Providers) : \A j \in 1..Len(c.Providers) :
    i # j => c.Providers[i].Name # c.Providers[j].Name

\* C23: Config.AddProvider rejects a provider whose name is already in the
\* list or that fails Provider.Validate, and a rejected call leaves the list
\* as it was; after any sequence of AddProvider and RemoveProvider calls on a
\* list that started with unique names, no two providers share a name.
C23_NamesStayUnique ==
  /\ UniqueNames(cfg)
  /\ \A p \in ProviderInputs :
       /\ (GetProvider(cfg, p.Name) # 0 \/ ProviderValidate(p) # "nil")
            => AddProvider(cfg, p).err # "nil"
       /\ AddProvider(cfg, p).err # "nil" => AddProvider(cfg, p).cfg = cfg

\* A second provider of a name in the list was offered, and rejected.
C23_Witness ==
  /\ ret.op = "AddProvider"
  /\ ret.err = "provider already exists"
  /\ Len(cfg.Providers) = MaxProviders
  /\ GetProvider(cfg, ret.arg) # 0

\* C24: Manager.Load on a config path that is a symbolic link, whatever the
\* link points to, fails with "config file is a symlink - refusing for
\* security"; it neither loads nor falls back to the defaults.
C24_SymlinkRefused ==
  [][\A e \in Envs :
       (Lstat(fsys, ConfigFile).symlink /\ MgrLoad(e))
         => ret'.err = "config file is a symlink - refusing for security"]_vars

\* C25: once two concurrent Store or Delete calls of two processes have both
\* returned without error, the blob is byte for byte what one of the two
\* wrote, and it decrypts.
C25_OneWritersOutput ==
  (\A i \in Procs : procs[i].pc = "done" /\ procs[i].err = "nil")
    => /\ fsys[SecretsEnc].data \in {procs[i].out : i \in Procs}
       /\ loadAll(fsys, TheFileStore).err = "nil"

\* C26: a FileStore.Store or FileStore.Delete called while secrets.enc is a
\* symbolic link, whatever the link points to, fails, and creates or writes
\* nothing: the directory is as it was.
C26_NoWriteThroughLink ==
  [][\A p \in ProviderNames :
       (/\ fsys[SecretsEnc].kind = "symlink"
        /\ \/ FsDelete(p)
           \/ \E k \in APIKeys : FsStore(p, k))
         => ret'.err # "nil" /\ fsys' = fsys]_vars

\* The secrets the keyring and the blob of the directory fs hold.
Stored(k, fs) == <<k.items, loadAll(fs, NewFileStore(Machine)).secrets>>

\* C27: a `config remove <name>` that returns an error has changed neither
\* the secrets that are stored nor the persisted config file.
C27_RemoveAllOrNothing ==
  [][\A name \in RemoveNames \cup {NoSuchName} :
       (ConfigRemove(name, TRUE) /\ ret'.err # "nil")
         => /\ Stored(kr', fsys') = Stored(kr, fsys)
            /\ fsys'[ConfigFile] = fsys[ConfigFile]]_vars

\* C28: a Retrieve(p) that runs while one other process's Store or Delete
\* writes the blob returns a value, or finds no key, only as a Retrieve
\* before or after that write would; anything else it returns is an error.
\* It never finds no key for a name the blob holds before and after.
C28_ReadSeesBeforeOrAfter ==
  (/\ procs[Reader].pc = "done"
   /\ procs[Reader].err \in {"nil", ErrNoKey}
   /\ \E i \in Procs : procs[i].pc = "idle")
    => [err |-> procs[Reader].err, val |-> procs[Reader].val]
         \in procs[Reader].could

\* Retrieve("b") read the blob between the truncation and the write of a
\* Store("a", k) and returned a decryption error; "b" was stored before the
\* write and is stored after it.
C28_Witness ==
  /\ procs[Reader].pc = "done"
  /\ procs[Reader].name = <<"b">>
  /\ procs[Reader].err = ErrDecryptShort
  /\ procs[Reader].could = {[err |-> "nil", val |-> <<"k">>]}
  /\ procs["p1"].pc = "done" /\ procs["p1"].op = "Store"
  /\ procs["p1"].name = <<"a">> /\ procs["p2"].pc = "idle"
  /\ Outcome(fsys, <<"b">>) = [err |-> "nil", val |-> <<"k">>]

\* C30: FileStore.Retrieve leaves the data directory as it found it, whether
\* it returns a secret, finds no key or fails: the blob is not created, not
\* truncated and not modified.
C30_RetrieveWritesNothing ==
  [][\A p \in DirNames : FsRetrieve(p) => fsys' = fsys]_vars

\* Retrieve has found no key on a store with no blob, and there is still no
\* blob.
C30_Witness ==
  /\ ret.op = "FileStore.Retrieve"
  /\ ret.err = ErrNoKey
  /\ fsys[SecretsEnc].kind = "none"

\* C29: in every state the TUI reaches, the default provider of the config,
\* when one is set, is the name of a provider in the list, so that the save
\* at the TUI's exit does not fail for it.
C29_DefaultIsAProvider ==
  /\ cfg.DefaultProvider # <<>> => GetProvider(cfg, cfg.DefaultProvider) # 0
  /\ ret.op = "SaveConfig" => ret.err = "nil"

====
